---------------------------- MODULE Spec2Model ----------------------------
(***************************************************************************)
(* A model of the wwebjs-bot conversational core: the option matcher, the  *)
(* flow validator, the flow engine over its state store, the conversation  *)
(* recovery service and the flow session service (advanceOrRestart).       *)
(*                                                                         *)
(* Texts (option ids, texts, aliases, prompts, user inputs) are sequences  *)
(* of one-character strings, so that trimming, case folding, whitespace    *)
(* collapsing and the edit distance are computed as the code computes      *)
(* them.  Node ids and flow keys are plain strings.  Time is a counter of  *)
(* clock ticks (Date.now()).                                               *)
(***************************************************************************)
EXTENDS Integers, Sequences, FiniteSets, TLC

VARIABLES
    store,      \* MemoryStore.map: chatId -> FlowState (NoState: no entry)
    conv,       \* InMemoryConversationStateRepository.store: chatId -> ConversationState
    tracker,    \* createFlowPromptTracker entries: chatId -> {at, flow}
    now,        \* Date.now(), in ticks
    out,        \* what the last operation did: its call, result and ordered effects
    invalidRun, \* history: chatId -> invalid inputs in a row since the last valid one
    built,      \* the option list buildOptionMatcher was called with
    lastMatch,  \* the last input given to the matcher and what it answered
    serviceOptions, \* FlowSessionServiceOptions: the flow definitions, menuFlowEnabled
    rate,       \* RateController: isTest, tokens, refill timer, lastSendAtByChat
    sends,      \* the withSend calls in flight: caller -> position, chat, wake time
    gatedSinceRefill, \* history: gated calls started since the bucket was last filled
    calls,      \* the inbound messages in flight: handler -> position, chat, input, state read
    flowDef,    \* the flow definition handed to validateOptionFlow
    report,     \* what validateOptionFlow answered for flowDef
    failure,    \* the rejection sendSafe was set to answer in the last call, and its outcome
    inProgress, \* commandRegistry: isShutdownInProgress, isRestartInProgress
    adminCalls, \* the owner's commands in flight: caller -> position, command, outcome
    ttlMap,     \* MemoryStore.ttlMap: chatId -> the expiry timer armed for the chat
    returned,   \* what the last recovery-service or tracker operation returned
    consumers,  \* the consumePendingSuggestion calls in flight: caller -> position, state read
    timeouts    \* the setTimeout timers of MemoryStore not yet fired or cleared: {chat, at}

vars == <<store, conv, tracker, now, out, invalidRun, built, lastMatch, serviceOptions,
          rate, sends, gatedSinceRefill, calls, flowDef, report,
          failure, inProgress, adminCalls, ttlMap, returned, consumers, timeouts>>

\* the variables of the option matcher taken alone
matcherVars == <<built, lastMatch>>

\* the variables the flow engine and the session service leave alone
\* the variables of the rate controller
rateVars == <<rate, sends, gatedSinceRefill>>

\* the variables of the validator taken alone
validatorVars == <<flowDef, report>>

\* the variables of the later sections
\* the variables of the recovery service and the prompt tracker taken alone
finalVars == <<returned, consumers, timeouts>>

laterVars == <<failure, inProgress, adminCalls, ttlMap, finalVars>>

extraVars == <<validatorVars, laterVars>>

auxVars == <<matcherVars, serviceOptions, rateVars, calls, extraVars>>

-----------------------------------------------------------------------------
(* Bounds of the model *)

\* the clock stops advancing at MaxTime
MaxTime == 4

Chats == {"c1", "c2"}

\* the chat whose messages reach the session service
SessionChats == {"c1"}

-----------------------------------------------------------------------------
(* Text primitives: String.prototype.trim, toLowerCase, replace(/\s+/g,' ') *)

E == << >>

LowerMap ==
    ("A" :> "a") @@ ("C" :> "c") @@ ("G" :> "g") @@ ("L" :> "l") @@
    ("O" :> "o") @@ ("P" :> "p") @@ ("S" :> "s") @@ ("V" :> "v")

ToLower(ch) == IF ch \in DOMAIN LowerMap THEN LowerMap[ch] ELSE ch

IsSpace(ch) == ch = " "

DigitVal ==
    ("0" :> 0) @@ ("1" :> 1) @@ ("2" :> 2) @@ ("3" :> 3) @@ ("4" :> 4) @@
    ("5" :> 5) @@ ("6" :> 6) @@ ("7" :> 7) @@ ("8" :> 8) @@ ("9" :> 9)

RECURSIVE TrimLeft(_)
TrimLeft(s) ==
    IF s = E THEN E
    ELSE IF IsSpace(Head(s)) THEN TrimLeft(Tail(s)) ELSE s

RECURSIVE TrimRight(_)
TrimRight(s) ==
    IF s = E THEN E
    ELSE IF IsSpace(s[Len(s)]) THEN TrimRight(SubSeq(s, 1, Len(s) - 1)) ELSE s

Trim(s) == TrimRight(TrimLeft(s))

\* replace(/\s+/g, ' '): every maximal run of whitespace becomes one space
RECURSIVE CollapseWs(_)
CollapseWs(s) ==
    IF s = E THEN E
    ELSE IF IsSpace(Head(s))
         THEN <<" ">> \o CollapseWs(TrimLeft(s))
         ELSE <<Head(s)>> \o CollapseWs(Tail(s))

LowerCase(s) == [i \in 1..Len(s) |-> ToLower(s[i])]

\* answers.ts normalizeText
normalizeText(value) == LowerCase(CollapseWs(Trim(value)))

\* /^\d+$/.test(raw)
IsDigits(raw) == raw # E /\ \A i \in 1..Len(raw) : raw[i] \in DOMAIN DigitVal

\* Number(raw) for a string of decimal digits
RECURSIVE NumberOf(_)
NumberOf(raw) ==
    IF raw = E THEN 0
    ELSE 10 * NumberOf(SubSeq(raw, 1, Len(raw) - 1)) + DigitVal[raw[Len(raw)]]

\* String.prototype.includes
Includes(s, sub) ==
    \E i \in 1..(Len(s) - Len(sub) + 1) : SubSeq(s, i, i + Len(sub) - 1) = sub

Min2(a, b) == IF a <= b THEN a ELSE b
Max2(a, b) == IF a >= b THEN a ELSE b

\* answers.ts levenshteinDistance: the dynamic-programming matrix, filled row
\* by row; a row is kept as the sequence of matrix[i][0..cols-1]
RECURSIVE FillRow(_, _, _, _)
FillRow(prev, ch, b, row) ==
    IF Len(row) = Len(b) + 1 THEN row
    ELSE LET j    == Len(row)
             cost == IF ch = b[j] THEN 0 ELSE 1
         IN  FillRow(prev, ch, b,
                     Append(row, Min2(Min2(prev[j + 1] + 1, row[j] + 1), prev[j] + cost)))

RECURSIVE FillMatrix(_, _, _, _)
FillMatrix(a, b, i, prev) ==
    IF i > Len(a) THEN prev[Len(b) + 1]
    ELSE FillMatrix(a, b, i + 1, FillRow(prev, a[i], b, <<i>>))

levenshteinDistance(a, b) == FillMatrix(a, b, 1, [j \in 1..(Len(b) + 1) |-> j - 1])

-----------------------------------------------------------------------------
(* Option matcher: src/validation/answers.ts *)

\* a RawFlowOption; next = "" stands for an option without next
Opt(id, text, aliases, next) ==
    [id |-> id, text |-> text, aliases |-> aliases, next |-> next]

\* faulty variant of normalizeOption: the text is kept untrimmed
normalizeOptionUntrimmed(option, index) ==
    [originalIndex |-> index,
     id      |-> Trim(option.id),
     text    |-> option.text,
     next    |-> option.next,
     aliases |-> [k \in 1..Len(option.aliases) |-> Trim(option.aliases[k])]]

normalizeOption(option, index) ==
    [originalIndex |-> index,
     id      |-> Trim(option.id),
     text    |-> Trim(option.text),
     next    |-> option.next,
     aliases |-> [k \in 1..Len(option.aliases) |-> Trim(option.aliases[k])]]

\* options.map((option, index) => normalizeOption(option, index))
NormalizeAll(options) ==
    [k \in 1..Len(options) |-> normalizeOption(options[k], k - 1)]

\* Map.set in list order: the last option written under a key is the one kept
LastIndexWhere(opts, P(_)) ==
    LET hits == {k \in 1..Len(opts) : P(opts[k])}
    IN  IF hits = {} THEN 0 ELSE CHOOSE k \in hits : \A h \in hits : h <= k

NoMatch == [kind |-> "none", matchedBy |-> "none", idx |-> 0, num |-> 0, den |-> 1]

\* faulty variant of ExactMatch: the first option is answered, whichever matched
ExactMatchFirstOption(by, k) ==
    [kind |-> "exact", matchedBy |-> by, idx |-> 1, num |-> 1, den |-> 1]

ExactMatch(by, k) == [kind |-> "exact", matchedBy |-> by, idx |-> k, num |-> 1, den |-> 1]

\* faulty variant of matchExact: the lookup by text is left out
matchExactWithoutText(opts, inputRaw) ==
    LET raw    == Trim(inputRaw)
        nv     == normalizeText(raw)
        HasId(o)    == o.id # E /\ o.id = raw
        HasAlias(o) == \E a \in 1..Len(o.aliases) :
                          /\ normalizeText(o.aliases[a]) # E
                          /\ normalizeText(o.aliases[a]) = nv
        byId    == LastIndexWhere(opts, HasId)
        byAlias == LastIndexWhere(opts, HasAlias)
    IN  IF raw = E THEN NoMatch
        ELSE IF byId # 0 THEN ExactMatch("id", byId)
        ELSE IF IsDigits(raw) /\ NumberOf(raw) \in 1..Len(opts)
             THEN ExactMatch("index", NumberOf(raw))
        ELSE IF nv = E THEN NoMatch
        ELSE IF byAlias # 0 THEN ExactMatch("alias", byAlias)
        ELSE NoMatch

\* faulty variant of matchExact: the position is looked up before the id
matchExactIndexFirst(opts, inputRaw) ==
    LET raw    == Trim(inputRaw)
        nv     == normalizeText(raw)
        HasId(o)    == o.id # E /\ o.id = raw
        HasAlias(o) == \E a \in 1..Len(o.aliases) :
                          /\ normalizeText(o.aliases[a]) # E
                          /\ normalizeText(o.aliases[a]) = nv
        HasText(o)  == normalizeText(o.text) # E /\ normalizeText(o.text) = nv
        byId    == LastIndexWhere(opts, HasId)
        byAlias == LastIndexWhere(opts, HasAlias)
        byText  == LastIndexWhere(opts, HasText)
    IN  IF raw = E THEN NoMatch
        ELSE IF IsDigits(raw) /\ NumberOf(raw) \in 1..Len(opts)
             THEN ExactMatch("index", NumberOf(raw))
        ELSE IF byId # 0 THEN ExactMatch("id", byId)
        ELSE IF nv = E THEN NoMatch
        ELSE IF byAlias # 0 THEN ExactMatch("alias", byAlias)
        ELSE IF byText # 0 THEN ExactMatch("text", byText)
        ELSE NoMatch

\* buildOptionMatcher(...).match: id, then 1-based index, then alias, then text
matchExact(opts, inputRaw) ==
    LET raw    == Trim(inputRaw)
        nv     == normalizeText(raw)
        HasId(o)    == o.id # E /\ o.id = raw
        HasAlias(o) == \E a \in 1..Len(o.aliases) :
                          /\ normalizeText(o.aliases[a]) # E
                          /\ normalizeText(o.aliases[a]) = nv
        HasText(o)  == normalizeText(o.text) # E /\ normalizeText(o.text) = nv
        byId    == LastIndexWhere(opts, HasId)
        byAlias == LastIndexWhere(opts, HasAlias)
        byText  == LastIndexWhere(opts, HasText)
    IN  IF raw = E THEN NoMatch
        ELSE IF byId # 0 THEN ExactMatch("id", byId)
        ELSE IF IsDigits(raw) /\ NumberOf(raw) \in 1..Len(opts)
             THEN ExactMatch("index", NumberOf(raw))
        ELSE IF nv = E THEN NoMatch
        ELSE IF byAlias # 0 THEN ExactMatch("alias", byAlias)
        ELSE IF byText # 0 THEN ExactMatch("text", byText)
        ELSE NoMatch

\* confidence = 1 - distance / denominator, kept as the fraction num/den
ConfNum(input, text) ==
    Max2(Len(input), Len(text)) - levenshteinDistance(input, text)

ConfDen(input, text) == Max2(Len(input), Len(text))

\* faulty variant of AtLeast: every confidence passes the threshold
AtLeastAnyConfidence(num, den, pct) == num >= 0

\* confidence >= pct / 100
AtLeast(num, den, pct) == 100 * num >= pct * den

\* the candidates (options with a non-empty normalized text), each with its
\* confidence against the normalized input
Confidences(opts, ni) ==
    [k \in {h \in 1..Len(opts) : normalizeText(opts[h].text) # E}
        |-> [num |-> ConfNum(ni, normalizeText(opts[k].text)),
             den |-> ConfDen(ni, normalizeText(opts[k].text))]]

\* the first candidate of maximal confidence among the candidates good
FirstBest(conf, good) ==
    CHOOSE k \in good :
        \A h \in good \ {k} :
            \/ conf[k].num * conf[h].den > conf[h].num * conf[k].den
            \/ (conf[k].num * conf[h].den = conf[h].num * conf[k].den /\ k < h)

SuggestionOf(conf, best) ==
    [kind |-> "suggestion", matchedBy |-> "text", idx |-> best,
     num |-> conf[best].num, den |-> conf[best].den]

BestAmong(conf, good) ==
    IF good = {} THEN NoMatch ELSE SuggestionOf(conf, FirstBest(conf, good))

BestCandidate(conf, minimumConfidence) ==
    BestAmong(conf, {k \in DOMAIN conf :
                        AtLeast(conf[k].num, conf[k].den, minimumConfidence)})

\* faulty variant of considerCandidate: a candidate of equal confidence
\* replaces the best so far
considerCandidateLastWins(best, k, num, den, minimumConfidence) ==
    IF den = 0 THEN best
    ELSE IF /\ AtLeast(num, den, minimumConfidence)
            /\ (best.kind # "suggestion" \/ num * best.den >= best.num * den)
    THEN [kind |-> "suggestion", matchedBy |-> "text", idx |-> k, num |-> num, den |-> den]
    ELSE best

\* one turn of the forEach of suggest, for candidate k of confidence num/den:
\* it becomes the best when it reaches minimumConfidence (in percent) and
\* there is no best yet or its confidence is strictly greater
considerCandidate(best, k, num, den, minimumConfidence) ==
    IF den = 0 THEN best
    ELSE IF /\ AtLeast(num, den, minimumConfidence)
            /\ (best.kind # "suggestion" \/ num * best.den > best.num * den)
    THEN [kind |-> "suggestion", matchedBy |-> "text", idx |-> k, num |-> num, den |-> den]
    ELSE best

\* this.candidates.forEach(...) from option k on; an option whose normalized
\* text is empty is no candidate
RECURSIVE suggestLoop(_, _, _, _, _)
suggestLoop(opts, ni, minimumConfidence, k, best) ==
    IF k > Len(opts) THEN best
    ELSE IF normalizeText(opts[k].text) = E
    THEN suggestLoop(opts, ni, minimumConfidence, k + 1, best)
    ELSE suggestLoop(opts, ni, minimumConfidence, k + 1,
                     considerCandidate(best, k,
                                       ConfNum(ni, normalizeText(opts[k].text)),
                                       ConfDen(ni, normalizeText(opts[k].text)),
                                       minimumConfidence))

\* LevenshteinSuggestionEngine.suggest
suggest(opts, input, minimumConfidence) ==
    IF normalizeText(input) = E THEN NoMatch
    ELSE suggestLoop(opts, normalizeText(input), minimumConfidence, 1, NoMatch)

\* buildOptionMatcher(...).matchOption
matchOption(opts, inputRaw, minimumConfidence) ==
    LET exact == matchExact(opts, inputRaw)
    IN  IF exact.kind = "exact" THEN exact
        ELSE IF \A k \in 1..Len(opts) : normalizeText(opts[k].text) = E THEN NoMatch
        ELSE suggest(opts, inputRaw, minimumConfidence)

-----------------------------------------------------------------------------
(* Flow definitions.  The menu and catalog flows keep the graph, the       *)
(* aliases, the kinds and the flags of src/flows; their texts are          *)
(* shortened to four letters (one capital) so that the edit distance       *)
(* reaches every confidence band.                                          *)

Node(kind, prompt, terminal, options, lockOnComplete) ==
    [kind |-> kind, prompt |-> prompt, terminal |-> terminal,
     options |-> options, lockOnComplete |-> lockOnComplete]

NoOptions == << >>

\* src/flows/menu.ts
menuFlow ==
    [start |-> "inicio",
     nodes |->
        [inicio |-> Node("list", <<"W">>, FALSE,
            << Opt(<<"o","r","c">>, <<"O","r","c","a">>, << <<"1">> >>, "orcamento"),
               Opt(<<"a","n","d">>, <<"A","n","d","a">>, << <<"2">> >>, "andamento"),
               Opt(<<"l","o","c">>, <<"L","o","c","a">>, << <<"3">> >>, "localizacao"),
               Opt(<<"o","u","t">>, <<"O","u","t","r">>, << <<"4">> >>, "outras") >>, FALSE),
         orcamento   |-> Node("text", <<"R","1">>, TRUE, NoOptions, FALSE),
         andamento   |-> Node("text", <<"R","2">>, TRUE, NoOptions, FALSE),
         localizacao |-> Node("text", <<"R","3">>, TRUE, NoOptions, FALSE),
         outras      |-> Node("text", <<"R","4">>, TRUE, NoOptions, TRUE)]]

\* src/flows/catalog.ts
catalogFlow ==
    [start |-> "inicio",
     nodes |->
        [inicio |-> Node("text", <<"W">>, FALSE,
            << Opt(<<"c","o","n","s">>, <<"C","o","n","s">>, << <<"1">> >>, "consertos"),
               Opt(<<"p","r","o","d">>, <<"P","r","o","d">>, << <<"2">> >>, "produtos"),
               Opt(<<"a","t","e","n">>, <<"A","t","e","n">>, << <<"3">> >>, "atendente") >>, FALSE),
         consertos |-> Node("text", <<"T">>, FALSE,
            << Opt(<<"s","o","l","a">>, <<"S","o","l","a">>, << <<"1">> >>, "final"),
               Opt(<<"c","o","s","t">>, <<"C","o","s","t">>, << <<"2">> >>, "final"),
               Opt(<<"v","o","l","t","a","r">>, <<"V","o","l","t","a","r">>, << <<"3">> >>, "inicio") >>, FALSE),
         produtos |-> Node("text", <<"D">>, FALSE,
            << Opt(<<"c","a","d","a">>, <<"C","a","d","a">>, << <<"1">> >>, "final"),
               Opt(<<"p","a","l","m">>, <<"P","a","l","m">>, << <<"2">> >>, "final"),
               Opt(<<"v","o","l","t","a","r">>, <<"V","o","l","t","a","r">>, << <<"3">> >>, "inicio") >>, FALSE),
         atendente |-> Node("text", <<"K">>, TRUE, NoOptions, FALSE),
         final     |-> Node("text", <<"F">>, TRUE, NoOptions, FALSE)]]

OptGo(next) == Opt(<<"x">>, <<" ","G","o">>, << >>, next)

\* the flows handed to FlowEngine.start: the two of src/flows, the flows of
\* __tests__/flow-engine.test.js and spec.md section 8, and malformed ones
FlowDefs ==
    [menu    |-> menuFlow,
     catalog |-> catalogFlow,
     \* a -> b (terminal)
     simple  |-> [start |-> "a", nodes |->
                    [a |-> Node("text", <<"P">>, FALSE, << OptGo("b") >>, FALSE),
                     b |-> Node("text", <<"E">>, TRUE, NoOptions, FALSE)]],
     \* s -> t -> s: a cycle, never terminal
     cyclic  |-> [start |-> "s", nodes |->
                    [s |-> Node("text", <<"P">>, FALSE, << OptGo("t") >>, FALSE),
                     t |-> Node("text", <<"Q">>, FALSE, << OptGo("s") >>, FALSE)]],
     \* the only option has no next
     nonext  |-> [start |-> "a", nodes |->
                    [a |-> Node("text", <<"P">>, FALSE, << OptGo("") >>, FALSE)]],
     \* a non-terminal start node without options
     optless |-> [start |-> "a", nodes |->
                    [a |-> Node("text", <<"P">>, FALSE, NoOptions, FALSE)]],
     \* valid: the option has a blank alias beside a usable one
     blankalias |-> [start |-> "a", nodes |->
                    [a |-> Node("text", <<"P">>, FALSE,
                              << Opt(<<"x">>, <<" ","G","o">>, << <<" ">>, <<"g">> >>, "b") >>,
                              FALSE),
                     b |-> Node("text", <<"E">>, TRUE, NoOptions, FALSE)]],
     \* malformed: next names a node that does not exist
     dangling |-> [start |-> "a", nodes |->
                    [a |-> Node("text", <<"P">>, FALSE, << OptGo("zz") >>, FALSE)]],
     \* malformed: the start node does not exist
     nostart |-> [start |-> "s", nodes |->
                    [a |-> Node("text", <<"P">>, FALSE, << OptGo("b") >>, FALSE),
                     b |-> Node("text", <<"E">>, TRUE, NoOptions, FALSE)]],
     \* malformed: node u is unreachable from start
     unreach |-> [start |-> "a", nodes |->
                    [a |-> Node("text", <<"P">>, FALSE, << OptGo("b") >>, FALSE),
                     b |-> Node("text", <<"E">>, TRUE, NoOptions, FALSE),
                     u |-> Node("text", <<"U">>, TRUE, NoOptions, FALSE)]],
     \* malformed: two options share an id
     dupid   |-> [start |-> "a", nodes |->
                    [a |-> Node("text", <<"P">>, FALSE,
                              << OptGo("b"), Opt(<<"x">>, <<"S","o">>, << >>, "b") >>, FALSE),
                     b |-> Node("text", <<"E">>, TRUE, NoOptions, FALSE)]],
     \* malformed: a non-terminal node with a blank prompt
     noprompt |-> [start |-> "a", nodes |->
                    [a |-> Node("text", <<" ">>, FALSE, << OptGo("b") >>, FALSE),
                     b |-> Node("text", <<"E">>, TRUE, NoOptions, FALSE)]],
     \* malformed: a terminal node with options
     termopts |-> [start |-> "a", nodes |->
                    [a |-> Node("text", <<"P">>, TRUE, << OptGo("b") >>, FALSE),
                     b |-> Node("text", <<"E">>, TRUE, NoOptions, FALSE)]]]

FlowKeys == DOMAIN FlowDefs

NodeIds(flow) == DOMAIN flow.nodes

-----------------------------------------------------------------------------
(* Flow validator: src/validation/flows.js, src/validation/answers.ts *)

\* validateAnswerOptions(options).ok with the default config (uniqueText)
validateAnswerOptions(options) ==
    LET n == NormalizeAll(options)
    IN  /\ \A k \in 1..Len(n) : n[k].id # E /\ n[k].text # E
        /\ \A k, h \in 1..Len(n) :
              k < h => /\ n[k].id # n[h].id
                       /\ normalizeText(n[k].text) # normalizeText(n[h].text)

\* the nodes the depth-first scan from startId visits
RECURSIVE ReachFrom(_, _)
ReachFrom(flow, visited) ==
    LET more == {o.next : o \in UNION {{flow.nodes[v].options[k] :
                                          k \in 1..Len(flow.nodes[v].options)} : v \in visited}}
        new  == (more \cap NodeIds(flow)) \ visited
    IN  IF new = {} THEN visited ELSE ReachFrom(flow, visited \cup new)

Reachable(flow) ==
    IF flow.start \in NodeIds(flow) THEN ReachFrom(flow, {flow.start}) ELSE {}

\* faulty variant of NodeErrors: the prompt and the options of a terminal
\* node are not looked at
NodeErrorsOptionsOnly(flow, id) ==
    (IF ~validateAnswerOptions(flow.nodes[id].options) THEN {<<"opcoes", id>>} ELSE {})
    \cup {<<"next inexistente", id>> : k \in
            {k \in 1..Len(flow.nodes[id].options) :
                flow.nodes[id].options[k].next # ""
                /\ flow.nodes[id].options[k].next \notin NodeIds(flow)}}

NodeErrors(flow, id) ==
    LET node == flow.nodes[id]
    IN  (IF ~node.terminal /\ Trim(node.prompt) = E THEN {<<"sem prompt", id>>} ELSE {})
        \cup (IF node.terminal /\ Len(node.options) > 0
              THEN {<<"terminal com opcoes", id>>} ELSE {})
        \cup (IF ~validateAnswerOptions(node.options) THEN {<<"opcoes", id>>} ELSE {})
        \cup {<<"next inexistente", id>> : k \in
                {k \in 1..Len(node.options) :
                    node.options[k].next # "" /\ node.options[k].next \notin NodeIds(flow)}}

\* the next ids of a node's options, in order (opt.next != null)
RECURSIVE nextsOf(_, _)
nextsOf(options, k) ==
    IF k > Len(options) THEN << >>
    ELSE IF options[k].next = "" THEN nextsOf(options, k + 1)
    ELSE <<options[k].next>> \o nextsOf(options, k + 1)

\* new Set() filled by add: a repeated value keeps its first place
RECURSIVE addAll(_, _, _)
addAll(acc, s, k) ==
    IF k > Len(s) THEN acc
    ELSE IF \E i \in 1..Len(acc) : acc[i] = s[k] THEN addAll(acc, s, k + 1)
    ELSE addAll(Append(acc, s[k]), s, k + 1)

\* outgoing.get(id): the Set of next ids, empty for an id that is no node
outgoing(flow, id) ==
    IF id \in NodeIds(flow) THEN addAll(<< >>, nextsOf(flow.nodes[id].options, 1), 1)
    ELSE << >>

\* the reachability scan: pop the stack, skip what was visited or is no
\* node, push the node's nexts
RECURSIVE scan(_, _, _)
scan(flow, stack, visited) ==
    IF stack = << >> THEN visited
    ELSE IF stack[Len(stack)] \in visited \/ stack[Len(stack)] \notin NodeIds(flow)
    THEN scan(flow, SubSeq(stack, 1, Len(stack) - 1), visited)
    ELSE scan(flow, SubSeq(stack, 1, Len(stack) - 1) \o outgoing(flow, stack[Len(stack)]),
              visited \cup {stack[Len(stack)]})

\* the Set visited after the scan from startId
visitedFrom(flow) == scan(flow, <<flow.start>>, {})

\* path.indexOf(u)
indexOf(path, u) ==
    IF \E i \in 1..Len(path) : path[i] = u
    THEN CHOOSE i \in 1..Len(path) : path[i] = u /\ \A j \in 1..(i - 1) : path[j] # u
    ELSE 0

\* the colours of the cycle scan before it starts: all white, no cycle found
NoColours == [gray |-> {}, black |-> {}, cyclePaths |-> << >>]

\* dfs(u, path) of the cycle detection; st holds the colours and cyclePaths
RECURSIVE dfs(_, _, _, _)
RECURSIVE dfsEach(_, _, _, _, _)
dfs(flow, u, path, st) ==
    IF u \in st.gray
    THEN IF indexOf(path, u) > 0
         THEN [st EXCEPT !.cyclePaths =
                  Append(@, SubSeq(path, indexOf(path, u), Len(path)) \o <<u>>)]
         ELSE st
    ELSE IF u \in st.black THEN st
    ELSE [dfsEach(flow, outgoing(flow, u), 1, path, [st EXCEPT !.gray = @ \cup {u}])
            EXCEPT !.gray = @ \ {u}, !.black = @ \cup {u}]

\* nexts.forEach(v => dfs(v, path.concat(v)))
dfsEach(flow, nexts, k, path, st) ==
    IF k > Len(nexts) THEN st
    ELSE dfsEach(flow, nexts, k + 1, path,
                 dfs(flow, nexts[k], Append(path, nexts[k]), st))

\* cyclePaths after `if (flow[startId]) dfs(startId, [startId])`
cyclePaths(flow) ==
    IF flow.start \in NodeIds(flow)
    THEN dfs(flow, flow.start, <<flow.start>>, NoColours).cyclePaths
    ELSE << >>

\* faulty variant of flowErrors: unreachable nodes are not reported
flowErrorsNoReachability(flow) ==
    (IF flow.start \notin NodeIds(flow) THEN {<<"no inicial", flow.start>>} ELSE {})
    \cup UNION {NodeErrors(flow, id) : id \in NodeIds(flow)}

\* the errors array, as a set of <<what, node>>
flowErrors(flow) ==
    (IF flow.start \notin NodeIds(flow) THEN {<<"no inicial", flow.start>>} ELSE {})
    \cup UNION {NodeErrors(flow, id) : id \in NodeIds(flow)}
    \cup {<<"inalcancavel", id>> : id \in NodeIds(flow) \ visitedFrom(flow)}

\* the report once the errors are known; warnings holds the cycle warning
\* only (the alias warnings of validateAnswerOptions are left out)
flowReport(flow, errs) ==
    [ok |-> errs = {}, errors |-> errs,
     warnings |-> IF cyclePaths(flow) # << >> THEN {<<"ciclo", cyclePaths(flow)>>} ELSE {},
     nodes |-> Cardinality(NodeIds(flow)),
     reachable |-> Cardinality(visitedFrom(flow))]

\* validateOptionFlow(flow, undefined, {}) for a {start, nodes} definition;
\* the early return for a missing startId has empty stats (0 stands for none)
validateOptionFlow(flow) ==
    IF flow.start = ""
    THEN [ok |-> FALSE, errors |-> {<<"startId", "">>}, warnings |-> {},
          nodes |-> 0, reachable |-> 0]
    ELSE flowReport(flow, flowErrors(flow))

-----------------------------------------------------------------------------
(* Flow engine: src/flow-runtime/engine.ts over the state store *)

\* no entry for the chat in the store
NoState == [flow |-> "", current |-> ""]

FlowState(key, nodeId) == [flow |-> key, current |-> nodeId]

\* MemoryStore.set / clear / has on the chat's entry (src/flow-runtime/stateStore)
storeSet(fs, value) == value

\* faulty variant of storeClear: the entry survives the clear
storeClearKeepsEntry(fs) == fs

storeClear(fs) == NoState

storeHas(fs) == fs # NoState

DigitChar == <<"1", "2", "3", "4", "5", "6", "7", "8", "9">>

\* `${index + 1}. ${option.text}`
FormatOptions(options) ==
    [k \in 1..Len(options) |-> <<DigitChar[k], ".", " ">> \o options[k].text]

\* an AdvanceResult / start result; the fields a variant lacks are empty
Result(ok, terminal, error, nodeId, prompt, expected, options) ==
    [ok |-> ok, terminal |-> terminal, error |-> error, nodeId |-> nodeId,
     prompt |-> prompt, expected |-> expected, options |-> options]

NoResult == Result(FALSE, FALSE, "", "", E, E, E)

\* faulty variant of engineStart: the flow is stored without being validated
engineStartUnchecked(fs, key) ==
    [fs  |-> storeSet(fs, FlowState(key, FlowDefs[key].start)),
     res |-> Result(TRUE, FALSE, "", FlowDefs[key].start,
                    IF FlowDefs[key].start \in NodeIds(FlowDefs[key])
                    THEN FlowDefs[key].nodes[FlowDefs[key].start].prompt ELSE E, E, E)]

\* faulty variant of engineStartFlow: the definition is stored unvalidated
engineStartFlowUnvalidated(fs, key, flow) ==
    [fs  |-> storeSet(fs, FlowState(key, flow.start)),
     res |-> Result(TRUE, FALSE, "", flow.start, E, E, E)]

\* FlowEngine.start for a definition given by value; key names it in the
\* FlowState: [fs |-> the chat's store entry afterwards, res |-> result]
engineStartFlow(fs, key, flow) ==
    IF ~validateOptionFlow(flow).ok
    THEN [fs |-> fs, res |-> Result(FALSE, FALSE, "", "", E, E, E)]
    ELSE [fs  |-> storeSet(fs, FlowState(key, flow.start)),
          res |-> Result(TRUE, FALSE, "", flow.start, flow.nodes[flow.start].prompt, E, E)]

\* FlowEngine.start of one of the named definitions
engineStart(fs, key) == engineStartFlow(fs, key, FlowDefs[key])

\* FlowEngine.isActive: store.has
engineIsActive(fs) == storeHas(fs)

\* FlowEngine.cancel: store.clear
engineCancel(fs) == storeClear(fs)

\* faulty variant of advanceTo: a missing next node leaves the FlowState stored
advanceToKeepsState(fs, flow, current, nextId) ==
    IF nextId = ""
    THEN [fs  |-> storeClear(fs),
          res |-> Result(TRUE, TRUE, "", current, flow.nodes[current].prompt, E, E)]
    ELSE IF nextId \notin NodeIds(flow)
    THEN [fs  |-> fs,
          res |-> Result(FALSE, FALSE, "next_inexistente", nextId, E, E, E)]
    ELSE IF flow.nodes[nextId].terminal \/ Len(flow.nodes[nextId].options) = 0
    THEN [fs  |-> storeClear(fs),
          res |-> Result(TRUE, TRUE, "", nextId, flow.nodes[nextId].prompt, E, E)]
    ELSE [fs  |-> storeSet(fs, FlowState(fs.flow, nextId)),
          res |-> Result(TRUE, FALSE, "", nextId, flow.nodes[nextId].prompt, E,
                         FormatOptions(flow.nodes[nextId].options))]

\* faulty variant of advanceTo: a terminal target leaves the FlowState stored
advanceToKeepsTerminal(fs, flow, current, nextId) ==
    IF nextId = ""
    THEN [fs  |-> storeClear(fs),
          res |-> Result(TRUE, TRUE, "", current, flow.nodes[current].prompt, E, E)]
    ELSE IF nextId \notin NodeIds(flow)
    THEN [fs  |-> storeClear(fs),
          res |-> Result(FALSE, FALSE, "next_inexistente", nextId, E, E, E)]
    ELSE IF flow.nodes[nextId].terminal \/ Len(flow.nodes[nextId].options) = 0
    THEN [fs  |-> storeSet(fs, FlowState(fs.flow, nextId)),
          res |-> Result(TRUE, TRUE, "", nextId, flow.nodes[nextId].prompt, E, E)]
    ELSE [fs  |-> storeSet(fs, FlowState(fs.flow, nextId)),
          res |-> Result(TRUE, FALSE, "", nextId, flow.nodes[nextId].prompt, E,
                         FormatOptions(flow.nodes[nextId].options))]

\* FlowEngine.advance, from the lookup of the option's next node on
advanceTo(fs, flow, current, nextId) ==
    IF nextId = ""
    THEN [fs  |-> storeClear(fs),
          res |-> Result(TRUE, TRUE, "", current, flow.nodes[current].prompt, E, E)]
    ELSE IF nextId \notin NodeIds(flow)
    THEN [fs  |-> storeClear(fs),
          res |-> Result(FALSE, FALSE, "next_inexistente", nextId, E, E, E)]
    ELSE IF flow.nodes[nextId].terminal \/ Len(flow.nodes[nextId].options) = 0
    THEN [fs  |-> storeClear(fs),
          res |-> Result(TRUE, TRUE, "", nextId, flow.nodes[nextId].prompt, E, E)]
    ELSE [fs  |-> storeSet(fs, FlowState(fs.flow, nextId)),
          res |-> Result(TRUE, FALSE, "", nextId, flow.nodes[nextId].prompt, E,
                         FormatOptions(flow.nodes[nextId].options))]

\* FlowEngine.advance, from the matcher's answer on
advanceMatched(fs, flow, current, normalized, matched) ==
    IF matched.kind # "exact"
    THEN [fs  |-> fs,
          res |-> Result(FALSE, FALSE, "input_invalido", current, E,
                         [k \in 1..Len(normalized) |-> normalized[k].text], E)]
    ELSE advanceTo(fs, flow, current, normalized[matched.idx].next)

\* FlowEngine.advance at an existing node: a node without options is terminal
advanceAtNode(fs, flow, current, inputRaw) ==
    IF Len(flow.nodes[current].options) = 0
    THEN [fs  |-> storeClear(fs),
          res |-> Result(TRUE, TRUE, "", current, flow.nodes[current].prompt, E, E)]
    ELSE advanceMatched(fs, flow, current, NormalizeAll(flow.nodes[current].options),
                        matchExact(NormalizeAll(flow.nodes[current].options), inputRaw))

\* FlowEngine.advance
engineAdvance(fs, inputRaw) ==
    IF fs = NoState
    THEN [fs |-> fs, res |-> Result(FALSE, FALSE, "sem_fluxo_ativo", "", E, E, E)]
    ELSE IF fs.current \notin NodeIds(FlowDefs[fs.flow])
    THEN [fs |-> storeClear(fs), res |-> Result(FALSE, FALSE, "no_node", fs.current, E, E, E)]
    ELSE advanceAtNode(fs, FlowDefs[fs.flow], fs.current, inputRaw)

-----------------------------------------------------------------------------
(* Conversation recovery service:                                          *)
(* src/application/messaging/ConversationRecoveryService.ts                *)
(* A ConversationState is [attempts, phase, pending, lockedUntil,          *)
(* updatedAt]; pending is << >> or a one-element sequence holding the      *)
(* suggestion; lockedUntil = 0 is the falsy value the code tests with      *)
(* !current?.lockedUntil.                                                  *)

\* repository.get(chatId) === undefined
NoConv == [attempts |-> 0, phase |-> "absent", pending |-> << >>,
           lockedUntil |-> 0, updatedAt |-> 0]

\* (await this.getState(chatId)) ?? { attempts: 0, phase: 'initial', updatedAt }
CurrentOrDefault(cv, t) ==
    IF cv = NoConv
    THEN [attempts |-> 0, phase |-> "initial", pending |-> << >>,
          lockedUntil |-> 0, updatedAt |-> t]
    ELSE cv

\* save: repository.set(chatId, { ...state, updatedAt: this.now() })
save(state, t) == [state EXCEPT !.updatedAt = t]

\* faulty variant of recordValidSelection: the phase is reset, the count is not
recordValidSelectionKeepsCount(cv, t) ==
    save([attempts |-> cv.attempts, phase |-> "initial", pending |-> << >>,
          lockedUntil |-> 0, updatedAt |-> t], t)

recordValidSelection(cv, t) ==
    save([attempts |-> 0, phase |-> "initial", pending |-> << >>,
          lockedUntil |-> 0, updatedAt |-> t], t)

\* faulty variant of recordInvalidAttempt: the pending suggestion is kept
recordInvalidAttemptKeepsPending(cv, t) ==
    save([CurrentOrDefault(cv, t) EXCEPT
             !.attempts = CurrentOrDefault(cv, t).attempts + 1,
             !.phase = IF CurrentOrDefault(cv, t).attempts + 1 >= 2
                       THEN "fallback" ELSE "initial"], t)

\* faulty variant of recordInvalidAttempt: the fallback phase starts one
\* attempt late
recordInvalidAttemptLatePhase(cv, t) ==
    save([CurrentOrDefault(cv, t) EXCEPT
             !.attempts = CurrentOrDefault(cv, t).attempts + 1,
             !.phase = IF CurrentOrDefault(cv, t).attempts + 1 >= 3
                       THEN "fallback" ELSE "initial",
             !.pending = << >>], t)

\* the state recordInvalidAttempt stores; it returns {attempts, phase} of it
recordInvalidAttempt(cv, t) ==
    LET current  == CurrentOrDefault(cv, t)
        attempts == current.attempts + 1
    IN  save([current EXCEPT !.attempts = attempts,
                             !.phase = IF attempts >= 2 THEN "fallback" ELSE "initial",
                             !.pending = << >>], t)

\* faulty variant of setPendingSuggestion: the suggestion is not stored
setPendingSuggestionDropped(cv, t, suggestion) == save(CurrentOrDefault(cv, t), t)

setPendingSuggestion(cv, t, suggestion) ==
    save([CurrentOrDefault(cv, t) EXCEPT !.pending = <<suggestion>>], t)

peekPendingSuggestion(cv) == cv.pending

consumePendingSuggestion(cv, t) ==
    IF cv = NoConv \/ cv.pending = << >> THEN cv
    ELSE save([cv EXCEPT !.pending = << >>], t)

\* faulty variant of lock: lockedUntil is not stored
lockNotStored(cv, t, lockedUntil) == save(CurrentOrDefault(cv, t), t)

lock(cv, t, lockedUntil) ==
    save([CurrentOrDefault(cv, t) EXCEPT !.lockedUntil = lockedUntil], t)

\* faulty variant of unlock: lockedUntil is left in place
unlockKeepsLock(cv, t) == IF cv = NoConv THEN cv ELSE save(cv, t)

unlock(cv, t) ==
    IF cv = NoConv THEN cv ELSE save([cv EXCEPT !.lockedUntil = 0], t)

\* faulty variant of getLockStatus: a lock is never reported
getLockStatusNeverLocked(cv, t) ==
    [cv |-> cv, locked |-> FALSE, remainingMs |-> 0, lockedUntil |-> 0]

\* getLockStatus: [cv |-> the stored state afterwards, locked, remainingMs, lockedUntil]
getLockStatus(cv, t) ==
    IF cv.lockedUntil = 0
    THEN [cv |-> cv, locked |-> FALSE, remainingMs |-> 0, lockedUntil |-> 0]
    ELSE IF cv.lockedUntil - t <= 0
    THEN [cv |-> unlock(cv, t), locked |-> FALSE, remainingMs |-> 0, lockedUntil |-> 0]
    ELSE [cv |-> cv, locked |-> TRUE, remainingMs |-> cv.lockedUntil - t,
          lockedUntil |-> cv.lockedUntil]

getAttempts(cv, t) ==
    [attempts |-> CurrentOrDefault(cv, t).attempts, phase |-> CurrentOrDefault(cv, t).phase]

-----------------------------------------------------------------------------
(* Prompt-recency tracker: createFlowPromptTracker (src/app/appFactory.js) *)

\* entries.get(chatId) === undefined
NoEntry == [at |-> 0, flow |-> ""]

\* faulty variant of remember: without a key the entry is left as it is
rememberKeepsTime(tr, t, flowKey) ==
    IF flowKey = "" THEN tr ELSE [at |-> t, flow |-> flowKey]

\* remember(chatId, flowKey); flowKey = "" stands for an omitted key
remember(tr, t, flowKey) ==
    LET resolvedKey == IF flowKey # "" THEN flowKey ELSE tr.flow
    IN  IF resolvedKey = "" THEN tr ELSE [at |-> t, flow |-> resolvedKey]

clearTracker(tr) == NoEntry

-----------------------------------------------------------------------------
(* Flow session service: src/application/flows/FlowSessionService.ts       *)
(* Its operations thread a record m through the handler:                   *)
(*   fs, cv, tr : the chat's FlowState, ConversationState, tracker entry   *)
(*   ev         : the ordered effects (sends, engine calls, recovery       *)
(*                writes, resetDelay), each <<kind, what, flowKey, id>>    *)
(*   ret        : the handler's boolean result                             *)
(*   res        : the last engine result                                   *)

\* lockDurationMs (LOCK_DURATION_MS is 15 minutes), in ticks
LOCK_DURATION_MS == 2

\* fuzzySuggestionThreshold 0.45 and fuzzyConfirmationThreshold 0.75, in percent
FUZZY_SUGGESTION_THRESHOLD == 45

FUZZY_CONFIRMATION_THRESHOLD == 75

\* promptWindowMs (DEFAULT_FLOW_PROMPT_WINDOW_MS is 2 minutes), in ticks
DEFAULT_FLOW_PROMPT_WINDOW_MS == 1

\* options.menuFlowEnabled
menuFlowEnabled == serviceOptions.menuFlowEnabled

\* getFlowDefinition(key): the definition the registry holds under key, named
\* by its key in FlowDefs
getFlowDefinition(key) ==
    IF key = "menu" THEN serviceOptions.menu ELSE serviceOptions.catalog

\* an effect of the handler, in order; when the sends are tracked, the
\* state a send found is kept: it is what is left if that send rejects
Emit(m, kind, what, key, id) ==
    IF kind = "send" /\ m.track
    THEN [m EXCEPT !.ev = Append(@, <<kind, what, key, id>>),
                   !.snaps = Append(@, [fs |-> m.fs, cv |-> m.cv, tr |-> m.tr, ev |-> m.ev])]
    ELSE [m EXCEPT !.ev = Append(@, <<kind, what, key, id>>)]

\* context.sendSafe(chatId, <a fixed text of textConfig / texts>)
sendText(m, name) == Emit(m, "send", "text", "", name)

\* context.resetDelay?.(chatId)
resetDelay(m) == Emit(m, "resetDelay", "", "", "")

Returning(m, value) == [m EXCEPT !.ret = value]

\* createFlowPromptTracker(...).recentFlowKey, narrowed to a FlowKey
recentFlowKey(tr, t) ==
    IF tr # NoEntry /\ t - tr.at <= DEFAULT_FLOW_PROMPT_WINDOW_MS
          /\ tr.flow \in {"menu", "catalog"}
    THEN tr.flow ELSE ""

\* getNodeEntry: the menu flow is searched first, then the catalog flow
getNodeEntry(nodeId) ==
    IF nodeId \in NodeIds(FlowDefs[getFlowDefinition("menu")])
    THEN [found |-> TRUE, key |-> "menu",
          node |-> FlowDefs[getFlowDefinition("menu")].nodes[nodeId]]
    ELSE IF nodeId \in NodeIds(FlowDefs[getFlowDefinition("catalog")])
    THEN [found |-> TRUE, key |-> "catalog",
          node |-> FlowDefs[getFlowDefinition("catalog")].nodes[nodeId]]
    ELSE [found |-> FALSE, key |-> "", node |-> Node("text", E, FALSE, NoOptions, FALSE)]

\* extractOptionsForNode; << >> stands for undefined
extractOptionsForNode(nodeId) ==
    IF getNodeEntry(nodeId).found THEN NormalizeAll(getNodeEntry(nodeId).node.options)
    ELSE << >>

\* sendPrompt(chatId, node, flowKey, sendSafe); defKey names the flow holding node
sendPrompt(m, t, defKey, nodeId, flowKey) ==
    LET node == FlowDefs[defKey].nodes[nodeId]
        m1 == IF node.kind = "list" /\ Trim(node.prompt) # E
              THEN Emit(m, "send", "prompt", defKey, nodeId) ELSE m
        m2 == Emit(m1, "send", IF node.kind = "list" THEN "list" ELSE "content", defKey, nodeId)
    IN  [m2 EXCEPT !.tr = remember(@, t, flowKey)]

\* faulty variant of enforceLock: the notice is sent, the lock is not applied
enforceLockNoticeOnly(m, t) == sendText(m, "lockedNotice")

\* enforceLock: lock, then the locked notice
enforceLock(m, t) ==
    LET m1 == Emit([m EXCEPT !.cv = lock(@, t, t + LOCK_DURATION_MS)], "recovery", "lock", "", "")
    IN  sendText(m1, "lockedNotice")

\* finishWithLock(context, message)
finishWithLock(m, t, message) ==
    LET m1 == enforceLock(sendText(m, message), t)
    IN  [m1 EXCEPT !.tr = clearTracker(@)]

\* sendInitialMenu
sendInitialMenu(m, t) ==
    LET m1 == Emit(sendText(m, "welcome"), "send", "list", "", "initialMenu")
    IN  [m1 EXCEPT !.tr = remember(@, t, "menu")]

\* handleInvalidAttempt(context, status)
handleInvalidAttempt(m, t, status) ==
    IF status.attempts >= 3
    THEN Returning(finishWithLock(m, t, "fallbackClosure"), TRUE)
    ELSE IF status.phase = "fallback"
    THEN LET m1 == Emit(sendText(m, "fallbackRetry"), "send", "list", "", "fallbackMenu")
         IN  Returning([m1 EXCEPT !.tr = remember(@, t, "menu")], TRUE)
    ELSE LET m1 == Emit(sendText(m, "friendlyRetry"), "send", "list", "", "initialMenu")
         IN  Returning([m1 EXCEPT !.tr = remember(@, t, "menu")], TRUE)

\* recordInvalidAttempt followed by handleInvalidAttempt on its status
countInvalidAttempt(m, t) ==
    LET cv1 == recordInvalidAttempt(m.cv, t)
        m1  == Emit([m EXCEPT !.cv = cv1], "recovery", "recordInvalidAttempt", "", "")
    IN  handleInvalidAttempt(m1, t, [attempts |-> cv1.attempts, phase |-> cv1.phase])

\* trySuggest, from the matcher's answer on
offerSuggestion(m, t, options, match) ==
    IF match.kind # "suggestion" THEN Returning(m, FALSE)
    ELSE IF AtLeast(match.num, match.den, FUZZY_CONFIRMATION_THRESHOLD)
    THEN Returning(
           sendText(
             sendText(
               Emit([m EXCEPT !.cv = setPendingSuggestion(@, t,
                        [optionId   |-> options[match.idx].id,
                         optionText |-> options[match.idx].text,
                         confidence |-> <<match.num, match.den>>])],
                    "recovery", "setPendingSuggestion", "", ""),
               "suggestionPrompt"),
             "confirmHint"),
           TRUE)
    ELSE Returning(m, FALSE)

\* trySuggest: ret tells whether a suggestion was offered
trySuggest(m, t, input, options) ==
    IF Len(options) = 0 THEN Returning(m, FALSE)
    ELSE offerSuggestion(m, t, options,
                         matchOption(options, input, FUZZY_SUGGESTION_THRESHOLD))

\* processAdvanceResult on input_invalido at a menu node, after trySuggest
afterTrySuggest(ms, t) ==
    IF ms.ret THEN Returning(ms, TRUE) ELSE countInvalidAttempt(ms, t)

\* processAdvanceResult on a terminal result, after the prompt was sent
completeTerminal(m1, t, shouldLock) ==
    LET m2 == Emit([m1 EXCEPT !.cv = recordValidSelection(@, t)],
                   "recovery", "recordValidSelection", "", "")
        m3 == IF ~shouldLock THEN resetDelay(m2) ELSE enforceLock(m2, t)
    IN  Returning([m3 EXCEPT !.tr = remember(@, t, "")], TRUE)

\* processAdvanceResult on a result that names the next node to prompt
promptNextNode(m1, t) ==
    Returning(resetDelay(Emit([m1 EXCEPT !.cv = recordValidSelection(@, t)],
                              "recovery", "recordValidSelection", "", "")), TRUE)

\* processAdvanceResult with entry = getNodeEntry(result.nodeId)
processResultAt(m, t, input, result, entry) ==
    IF ~result.ok
    THEN IF result.error = "input_invalido"
         THEN IF ~entry.found \/ entry.key # "menu"
              THEN Returning(sendText(m, "invalidOptionText"), TRUE)
              ELSE afterTrySuggest(
                     trySuggest(m, t, input, extractOptionsForNode(result.nodeId)), t)
         ELSE Returning(
                sendText(Emit([m EXCEPT !.tr = clearTracker(@), !.fs = engineCancel(@)],
                              "engine", "cancel", "", ""),
                         "genericFlowErrorText"), TRUE)
    ELSE IF result.terminal
    THEN completeTerminal(IF result.prompt # E
                          THEN Emit(m, "send", "prompt", "", result.nodeId) ELSE m,
                          t,
                          result.nodeId # "" /\ entry.found /\ entry.node.lockOnComplete)
    ELSE IF ~entry.found THEN Returning(m, TRUE)
    ELSE promptNextNode(sendPrompt(m, t, getFlowDefinition(entry.key), result.nodeId,
                                   entry.key), t)

\* processAdvanceResult(context, result); input is context.input
processAdvanceResult(m, t, input, result) ==
    processResultAt(m, t, input, result, getNodeEntry(result.nodeId))

\* an engine call's outcome taken into the chat's state
engineCalled(m, r, what, key) ==
    Emit([m EXCEPT !.fs = r.fs, !.res = r.res], "engine", what, key, "")

\* processAdvanceResult on the result the engine has just returned
processEngineResult(m1, t, input) == processAdvanceResult(m1, t, input, m1.res)

\* advanceActiveSession / advanceWithInput: engine.advance with engineInput,
\* then processAdvanceResult with the context's own input
advanceWithInput(m, t, input, engineInput) ==
    processEngineResult(engineCalled(m, engineAdvance(m.fs, engineInput), "advance", ""),
                        t, input)

\* after engine.start of the flow defKey: its first prompt, remembered under
\* flowKey; notStarted is what the caller does when start is refused
promptIfStarted(m1, t, defKey, flowKey, notStarted) ==
    IF ~m1.res.ok THEN notStarted
    ELSE Returning(sendPrompt(m1, t, defKey, FlowDefs[defKey].start, flowKey), TRUE)

\* startInitialFlow: engine.start with the menu flow, then its first prompt
startInitialFlow(m, t) ==
    promptIfStarted(engineCalled(m, engineStart(m.fs, getFlowDefinition("menu")),
                                 "start", "menu"),
                    t, getFlowDefinition("menu"), "menu",
                    Returning(engineCalled(m, engineStart(m.fs, getFlowDefinition("menu")),
                                           "start", "menu"),
                              FALSE))

\* startInitialSessionForChat, after startInitialFlow
afterInitialFlow(ms, t) ==
    IF ~ms.ret THEN ms
    ELSE Returning(resetDelay(Emit([ms EXCEPT !.cv = recordValidSelection(@, t)],
                                   "recovery", "recordValidSelection", "", "")), TRUE)

\* startInitialSessionForChat
startInitialSessionForChat(m, t) == afterInitialFlow(startInitialFlow(m, t), t)

\* ConditionalFlowRestartStrategy / StaticFlowRestartStrategy: the flow started
StrategyFlow(key) == IF key = "menu" /\ menuFlowEnabled THEN "menu" ELSE "catalog"

\* the refusal of a restart: tracker cleared, flowUnavailableText sent
restartRefused(m2) ==
    Returning(sendText([m2 EXCEPT !.tr = clearTracker(@)], "flowUnavailableText"), TRUE)

\* FlowReentryRestartState.handle: the expired notice, then the strategy's start
restartPrevious(m, t, previousKey) ==
    promptIfStarted(
        engineCalled(sendText(m, "expiredFlowText"),
                     engineStart(m.fs, getFlowDefinition(StrategyFlow(previousKey))),
                     "start", StrategyFlow(previousKey)),
        t, getFlowDefinition(StrategyFlow(previousKey)), previousKey,
        restartRefused(engineCalled(sendText(m, "expiredFlowText"),
                                    engineStart(m.fs,
                                                getFlowDefinition(StrategyFlow(previousKey))),
                                    "start", StrategyFlow(previousKey))))

\* resumeIfPossible: createReentryState and FlowReentryRestartState.handle
resumeIfPossible(m, t, input) ==
    IF ~IsDigits(input) \/ recentFlowKey(m.tr, t) = "" THEN Returning(m, FALSE)
    ELSE restartPrevious(m, t, recentFlowKey(m.tr, t))

\* handleUnavailableFlow
handleUnavailableFlow(m) == Returning(sendText(m, "flowUnavailableText"), TRUE)

affirmative == {<<"s","i","m">>, <<"s">>, <<"i","s","s","o">>, <<"c","l","a","r","o">>}

negative == {<<"n","a","o">>, <<"n","ã","o">>, <<"n">>,
             <<"n","e","g","a","t","i","v","o">>}

\* handleSuggestionConfirmation: ret tells whether the input was consumed
handleSuggestionConfirmation(m, t, input, normalizedInput) ==
    IF peekPendingSuggestion(m.cv) = << >> THEN Returning(m, FALSE)
    ELSE IF normalizedInput \in affirmative
    THEN advanceWithInput(Emit([m EXCEPT !.cv = consumePendingSuggestion(@, t)],
                               "recovery", "consumePendingSuggestion", "", ""),
                          t, input, peekPendingSuggestion(m.cv)[1].optionId)
    ELSE IF normalizedInput \in negative
    THEN countInvalidAttempt(m, t)
    ELSE Returning(m, FALSE)

\* matchFallbackInput
matchFallbackInput(input) ==
    LET normalized == LowerCase(Trim(input))
    IN  IF normalized = E THEN "null"
        ELSE IF \/ normalized = <<"1">>
                \/ Includes(normalized, <<"a","g","u","a","r","d","a","r">>)
        THEN "aguardar_atendente"
        ELSE IF \/ normalized = <<"2">>
                \/ Includes(normalized, <<"v","o","l","t","a","r">>)
        THEN "voltar_menu"
        ELSE "null"

\* faulty variant of handleFallbackResponse: the phase is not looked at
handleFallbackSkipped(m, t, input) == Returning(m, FALSE)

\* handleFallbackResponse: ret tells whether the input was consumed
handleFallbackResponse(m, t, input) ==
    IF getAttempts(m.cv, t).phase # "fallback" THEN Returning(m, FALSE)
    ELSE IF matchFallbackInput(input) = "null" THEN countInvalidAttempt(m, t)
    ELSE IF matchFallbackInput(input) = "voltar_menu"
    THEN Returning(
           resetDelay(
             sendInitialMenu(
               sendText(Emit([m EXCEPT !.cv = recordValidSelection(@, t)],
                             "recovery", "recordValidSelection", "", ""),
                        "resumedNotice"), t)), TRUE)
    ELSE Returning(finishWithLock(m, t, "fallbackClosure"), TRUE)

\* FlowAdvanceInactiveState.handle, after the previous flow was tried
afterResume(m4) == IF m4.ret THEN m4 ELSE handleUnavailableFlow(m4)

\* faulty variant of afterStartInitial: the previous flow is tried even when
\* the initial flow has started
afterStartInitialAlwaysResumes(m3, t, input) ==
    afterResume(resumeIfPossible(m3, t, input))

\* FlowAdvanceInactiveState.handle, after the initial flow was tried
afterStartInitial(m3, t, input) ==
    IF m3.ret THEN m3 ELSE afterResume(resumeIfPossible(m3, t, input))

\* advanceOrRestart after the fallback step: createAdvanceState(isActive)
afterFallbackResponse(m2, t, input) ==
    IF m2.ret THEN m2
    ELSE IF engineIsActive(m2.fs) THEN advanceWithInput(m2, t, input, input)
    ELSE afterStartInitial(startInitialSessionForChat(m2, t), t, input)

\* advanceOrRestart after the suggestion step
afterSuggestionConfirmation(m1, t, input) ==
    IF m1.ret THEN m1
    ELSE afterFallbackResponse(handleFallbackResponse(m1, t, LowerCase(Trim(input))),
                               t, input)

\* the part of advanceOrRestart after the lock check
advanceUnlocked(m, t, input) ==
    afterSuggestionConfirmation(
        handleSuggestionConfirmation(m, t, input, LowerCase(Trim(input))), t, input)

\* the write getLockStatus made, if any: an expired lock was cleared
lockRead(m0, ls) ==
    IF ls.cv # m0.cv THEN Emit([m0 EXCEPT !.cv = ls.cv], "recovery", "unlock", "", "")
    ELSE m0

\* advanceOrRestart after getLockStatus answered ls
afterLockStatus(m0, t, input, ls) ==
    IF ls.locked THEN Returning(lockRead(m0, ls), TRUE)
    ELSE advanceUnlocked(lockRead(m0, ls), t, input)

\* advanceOrRestart(context) for a non-empty chatId; m0 holds the chat's
\* state before the call, with no effects yet
advanceOrRestart(m0, t, input) ==
    IF input = E THEN Returning(m0, FALSE)
    ELSE afterLockStatus(m0, t, input, getLockStatus(m0.cv, t))

\* commandRegistry.js: '!menu' (key "menu") and '!fluxo' (key "catalog")
\* start the flow through the engine and send its first prompt
commandStart(m, t, key) ==
    IF key = "menu" /\ ~menuFlowEnabled
    THEN Returning(sendText([m EXCEPT !.tr = clearTracker(@)], "welcomeText"), TRUE)
    ELSE promptIfStarted(engineCalled(m, engineStart(m.fs, getFlowDefinition(key)),
                                      "start", key),
                         t, getFlowDefinition(key), key,
                         restartRefused(engineCalled(m, engineStart(m.fs, getFlowDefinition(key)),
                                                     "start", key)))

-----------------------------------------------------------------------------
(* The state machine *)

\* the message bodies a user sends: empty, the four indexes, an option text
\* with other case and blanks, a near miss of it (distance 1 of 4), a far
\* miss (distance 2 of 4), noise, yes, no and the two fallback words
Inputs ==
    { E, <<"1">>, <<"2">>, <<"3">>, <<"4">>,
      <<" ","O","R","C","A">>, <<"o","r","c","s">>, <<"o","r","x","x">>,
      <<"z","z">>, <<"s","i","m">>, <<"n","a","o">>,
      <<"v","o","l","t","a","r">>, <<"a","g","u","a","r","d","a","r">> }

\* the flows the session service and the commands start
SessionKeys == {"menu", "catalog"}

NoStatus == [locked |-> FALSE, remainingMs |-> 0, lockedUntil |-> 0]

NoAttempts == [attempts |-> 0, phase |-> ""]

\* was: the attempts and phase stored for the chat when the call began
Out(op, chat, input, key, ret, res, ev, status, was) ==
    [op |-> op, chat |-> chat, input |-> input, key |-> key, ret |-> ret,
     res |-> res, ev |-> ev, status |-> status, was |-> was]

\* the chat's state as a handler finds it, with no effects yet
Machine(c) ==
    [fs |-> store[c], cv |-> conv[c], tr |-> tracker[c],
     ev |-> << >>, ret |-> FALSE, res |-> NoResult, track |-> FALSE, snaps |-> << >>]

\* an input that selects no option of the chat's current node, on a call that
\* is processed (not locked) and is not a yes to a pending suggestion
InvalidInput(m, t, input) ==
    /\ input # E
    /\ ~getLockStatus(m.cv, t).locked
    /\ engineIsActive(m.fs)
    /\ m.fs.current \in NodeIds(FlowDefs[m.fs.flow])
    /\ Len(FlowDefs[m.fs.flow].nodes[m.fs.current].options) > 0
    /\ matchExact(NormalizeAll(FlowDefs[m.fs.flow].nodes[m.fs.current].options), input).kind
          # "exact"
    /\ ~(m.cv.pending # << >> /\ LowerCase(Trim(input)) \in affirmative)

NextRun(m, t, input, run) ==
    IF input = E \/ getLockStatus(m.cv, t).locked THEN run
    ELSE IF InvalidInput(m, t, input) THEN Min2(run + 1, 3)
    ELSE 0

\* the deployment's options: the menu and catalog modules, the menu enabled
DefaultOptions == [menu |-> "menu", catalog |-> "catalog", menuFlowEnabled |-> TRUE]

\* the callers of withSend and the handlers of inbound messages
Callers == {"s1", "s2", "s3"}

Handlers == {"h1", "h2"}

\* no send to the chat has finished yet: Map.get answers undefined
NoSend == -1

\* Number.MAX_SAFE_INTEGER, cut to 31 bits: test mode never counts it down
MAX_SAFE_INTEGER == 2147483647

\* opts.perChatCooldownMs and opts.globalMaxPerInterval, in ticks and calls
perChatCooldownMs == 2

globalMaxPerInterval == 2

IdleSend == [pc |-> "idle", chat |-> "", wakeAt |-> 0]

\* new RateController(opts), with NODE_ENV = 'test' or not
newRateController(isTest) ==
    [isTest |-> isTest,
     tokens |-> IF isTest THEN MAX_SAFE_INTEGER ELSE globalMaxPerInterval,
     refill |-> FALSE,
     lastSendAtByChat |-> [c \in Chats |-> NoSend]]

IdleCall == [pc |-> "idle", chat |-> "", input |-> E, state |-> NoState]

\* no input was given to the matcher yet
NotMatched == [input |-> E, kind |-> "", matchedBy |-> "", idx |-> 0]

\* no definition was handed to the validator yet
NoFlow == [start |-> "", nodes |-> << >>]

NoReport == [ok |-> FALSE, errors |-> {}, warnings |-> {}, nodes |-> 0, reachable |-> 0]

\* the variables of the later sections before anything ran
\* no send was set to reject
NoFailure == [failAt |-> 0, rejected |-> FALSE, sends |-> 0]

\* the owner's messages handled at once
Owners == {"o1", "o2"}

IdleAdmin ==
    [pc |-> "idle", command |-> "", fromSelf |-> FALSE, noticeFails |-> FALSE,
     noticeSent |-> FALSE, warned |-> FALSE, ran |-> FALSE, result |-> ""]

\* ttlMap has no timer for the chat
NoTimer == [armed |-> FALSE, at |-> 0]

\* no recovery or tracker operation has returned yet
NoReturn == [op |-> "", chat |-> "", value |-> << >>]

\* a consumePendingSuggestion call that has not been made
IdleConsume == [pc |-> "idle", chat |-> "", current |-> << >>, value |-> << >>,
                raced |-> FALSE]

Consumers == {"k1", "k2"}

InitFinal ==
    /\ returned = NoReturn
    /\ consumers = [k \in Consumers |-> IdleConsume]
    /\ timeouts = {}

InitLater ==
    /\ InitFinal
    /\ ttlMap = [c \in Chats |-> NoTimer]
    /\ failure = NoFailure
    /\ inProgress = [shutdown |-> FALSE, restart |-> FALSE]
    /\ adminCalls = [p \in Owners |-> IdleAdmin]

InitExtra ==
    /\ flowDef = NoFlow
    /\ report = NoReport
    /\ InitLater

Init ==
    /\ store = [c \in Chats |-> NoState]
    /\ conv = [c \in Chats |-> NoConv]
    /\ tracker = [c \in Chats |-> NoEntry]
    /\ now = 0
    /\ out = Out("init", "", E, "", FALSE, NoResult, << >>, NoStatus, NoAttempts)
    /\ invalidRun = [c \in Chats |-> 0]
    /\ built = << >>
    /\ lastMatch = NotMatched
    /\ serviceOptions = DefaultOptions
    /\ rate = newRateController(FALSE)
    /\ sends = [p \in Callers |-> IdleSend]
    /\ gatedSinceRefill = 0
    /\ calls = [h \in Handlers |-> IdleCall]
    /\ InitExtra

\* FlowSessionService.advanceOrRestart({chatId: c, input, ...})
AdvanceOrRestart(c, input) ==
    \E m \in {advanceOrRestart(Machine(c), now, input)} :
    \E ls \in {getLockStatus(conv[c], now)} :
        /\ store' = [store EXCEPT ![c] = m.fs]
        /\ conv' = [conv EXCEPT ![c] = m.cv]
        /\ tracker' = [tracker EXCEPT ![c] = m.tr]
        /\ invalidRun' = [invalidRun EXCEPT ![c] = NextRun(Machine(c), now, input, @)]
        /\ out' = Out("advanceOrRestart", c, input, "", m.ret, m.res, m.ev,
                      [locked |-> ls.locked, remainingMs |-> ls.remainingMs,
                       lockedUntil |-> ls.lockedUntil],
                      [attempts |-> conv[c].attempts, phase |-> conv[c].phase])
        /\ UNCHANGED now
        /\ UNCHANGED auxVars

\* ConversationRecoveryService.getLockStatus(c)
GetLockStatus(c) ==
    \E ls \in {getLockStatus(conv[c], now)} :
        /\ conv' = [conv EXCEPT ![c] = ls.cv]
        /\ out' = Out("getLockStatus", c, E, "", FALSE, NoResult, << >>,
                      [locked |-> ls.locked, remainingMs |-> ls.remainingMs,
                       lockedUntil |-> ls.lockedUntil], NoAttempts)
        /\ UNCHANGED <<store, tracker, now, invalidRun>>
        /\ UNCHANGED auxVars

\* the '!menu' and '!fluxo' commands
CommandStart(c, key) ==
    \E m \in {commandStart(Machine(c), now, key)} :
        /\ store' = [store EXCEPT ![c] = m.fs]
        /\ conv' = [conv EXCEPT ![c] = m.cv]
        /\ tracker' = [tracker EXCEPT ![c] = m.tr]
        /\ invalidRun' = [invalidRun EXCEPT ![c] = 0]
        /\ out' = Out("command", c, E, key, m.ret, m.res, m.ev, NoStatus, NoAttempts)
        /\ UNCHANGED now
        /\ UNCHANGED auxVars

\* the clock advances
Tick ==
    /\ now < MaxTime
    /\ now' = now + 1
    /\ out' = Out("tick", "", E, "", FALSE, NoResult, << >>, NoStatus, NoAttempts)
    /\ UNCHANGED <<store, conv, tracker, invalidRun>>
    /\ UNCHANGED auxVars

Next ==
    \/ \E c \in SessionChats, input \in Inputs : AdvanceOrRestart(c, input)
    \/ \E c \in SessionChats : GetLockStatus(c)
    \/ \E c \in SessionChats, key \in SessionKeys : CommandStart(c, key)
    \/ Tick

Spec == Init /\ [][Next]_vars

\* FlowEngine.start(c, FlowDefs[key])
EngineStart(c, key) ==
    \E r \in {engineStart(store[c], key)} :
        /\ store' = [store EXCEPT ![c] = r.fs]
        /\ out' = Out("start", c, E, key, r.res.ok, r.res, << >>, NoStatus, NoAttempts)
        /\ UNCHANGED <<conv, tracker, now, invalidRun>>
        /\ UNCHANGED auxVars

\* FlowEngine.advance(c, input)
EngineAdvance(c, input) ==
    \E r \in {engineAdvance(store[c], input)} :
        /\ store' = [store EXCEPT ![c] = r.fs]
        /\ out' = Out("advance", c, input, store[c].flow, r.res.ok, r.res, << >>, NoStatus, NoAttempts)
        /\ UNCHANGED <<conv, tracker, now, invalidRun>>
        /\ UNCHANGED auxVars

\* FlowEngine.cancel(c)
EngineCancel(c) ==
    /\ store' = [store EXCEPT ![c] = engineCancel(@)]
    /\ out' = Out("cancel", c, E, "", TRUE, NoResult, << >>, NoStatus, NoAttempts)
    /\ UNCHANGED <<conv, tracker, now, invalidRun>>
    /\ UNCHANGED auxVars

\* the texts handed to FlowEngine.advance directly
EngineInputs ==
    { E, <<" ">>, <<"1">>, <<"2">>, <<"x">>, <<" ","g","O"," ">>, <<"g","x">>, <<"z","z">> }

NextEngine ==
    \/ \E c \in Chats, key \in FlowKeys : EngineStart(c, key)
    \/ \E c \in Chats, input \in EngineInputs : EngineAdvance(c, input)
    \/ \E c \in Chats : EngineCancel(c)

SpecEngine == Init /\ [][NextEngine]_vars

-----------------------------------------------------------------------------
(* Properties of the flow engine, checked under SpecEngine *)

\* the options of the node a stored FlowState points at
CurrentOptions(fs) == FlowDefs[fs.flow].nodes[fs.current].options

\* C1: for every flow that passes validation, start answers ok and leaves the
\* chat active, and an advance that answers terminal:true leaves it inactive,
\* after any sequence of start, advance and cancel on the chats.
C1_ActiveAfterStartInactiveAfterTerminal ==
    /\ (out.op = "start" /\ validateOptionFlow(FlowDefs[out.key]).ok)
          => (out.res.ok /\ storeHas(store[out.chat])
              /\ store[out.chat] = FlowState(out.key, FlowDefs[out.key].start))
    /\ (out.op = "advance" /\ out.res.ok /\ out.res.terminal)
          => ~storeHas(store[out.chat])

\* C1 happens: an advance over a started flow has just answered terminal:true
\* and the chat is inactive, while the other chat is still in its flow
C1_TerminalReached ==
    /\ out.op = "advance" /\ out.res.ok /\ out.res.terminal
    /\ out.key \in FlowKeys
    /\ store[out.chat] = NoState
    /\ \E d \in Chats \ {out.chat} : store[d] # NoState

\* C2: an advance whose input matches no option of the current node answers
\* ok:false, input_invalido, with the trimmed texts of the node's options as
\* expected and the node as nodeId; the stored FlowState of every chat is
\* what it was, so the chat is still active and the node can be tried again.
C2_InvalidInputKeepsState ==
    [][\A c \in Chats :
          (/\ out'.op = "advance" /\ out'.chat = c
           /\ storeHas(store[c])
           /\ store[c].current \in NodeIds(FlowDefs[store[c].flow])
           /\ Len(CurrentOptions(store[c])) > 0
           /\ matchExact(NormalizeAll(CurrentOptions(store[c])), out'.input).kind = "none")
          => /\ ~out'.res.ok /\ out'.res.error = "input_invalido"
             /\ out'.res.nodeId = store[c].current
             /\ out'.res.expected =
                   [k \in 1..Len(CurrentOptions(store[c])) |->
                        Trim(CurrentOptions(store[c])[k].text)]
             /\ store' = store
             /\ storeHas(store'[c])]_vars

\* C2 happens: a non-empty unmatched input has just been refused and the
\* chat is still at the node it was tried on
C2_InvalidInputRefused ==
    /\ out.op = "advance" /\ out.res.error = "input_invalido"
    /\ out.input = <<"z", "z">>
    /\ store[out.chat] = FlowState(out.key, out.res.nodeId)
    /\ out.res.expected # E

\* C10: start with a flow that fails validateOptionFlow answers ok:false and
\* writes nothing, so the FlowState stored before is what is stored after;
\* and no stored FlowState ever names a flow that fails validation.
C10_InvalidFlowNeverStored ==
    /\ [](\A c \in Chats :
             storeHas(store[c]) => validateOptionFlow(FlowDefs[store[c].flow]).ok)
    /\ [][(out'.op = "start" /\ ~validateOptionFlow(FlowDefs[out'.key]).ok)
             => (~out'.res.ok /\ store' = store)]_vars

\* C10 happens: a start with a malformed flow has just been refused for a
\* chat that keeps the FlowState of a flow started before
C10_InvalidStartRefused ==
    /\ out.op = "start" /\ ~out.res.ok
    /\ ~validateOptionFlow(FlowDefs[out.key]).ok
    /\ storeHas(store[out.chat])

-----------------------------------------------------------------------------
(* Properties of the flow session service, checked under Spec *)

Has(ev, e) == \E i \in 1..Len(ev) : ev[i] = e

Before(ev, a, b) == \E i, j \in 1..Len(ev) : i < j /\ ev[i] = a /\ ev[j] = b

Sends(ev) == \E i \in 1..Len(ev) : ev[i][1] = "send"

EngineCalls(ev) == \E i \in 1..Len(ev) : ev[i][1] = "engine"

EvInvalid == <<"recovery", "recordInvalidAttempt", "", "">>

EvValid == <<"recovery", "recordValidSelection", "", "">>

EvLock == <<"recovery", "lock", "", "">>

EvPending == <<"recovery", "setPendingSuggestion", "", "">>

EvText(name) == <<"send", "text", "", name>>

\* the call is a step of advanceOrRestart for chat c
Call(c) == out'.op = "advanceOrRestart" /\ out'.chat = c

\* the input is a yes or a no to a suggestion that is pending
AnswersSuggestion(cv, input) ==
    cv.pending # << >> /\ LowerCase(Trim(input)) \in affirmative \cup negative

\* the conversation is unlocked and the input exactly matches an option of
\* the node its flow is at
ValidSelection(fs, cv, t, input) ==
    /\ input # E /\ ~(cv.lockedUntil > t)
    /\ storeHas(fs) /\ fs.current \in NodeIds(FlowDefs[fs.flow])
    /\ matchExact(NormalizeAll(CurrentOptions(fs)), input).kind = "exact"

\* the best fuzzy match of the input among the options of the chat's node
BestFuzzy(fs, input) == suggest(NormalizeAll(CurrentOptions(fs)), input, 0)

\* the input reaches the suggestion step at a node of the menu flow: the
\* call is not locked out, is no answer to a pending suggestion, the phase is
\* not fallback, and the engine refuses the input at a menu node
ReachesSuggestion(fs, cv, t, input) ==
    /\ input # E /\ ~(cv.lockedUntil > t)
    /\ ~AnswersSuggestion(cv, input)
    /\ cv.phase # "fallback"
    /\ storeHas(fs) /\ fs.flow = "menu"
    /\ Len(CurrentOptions(fs)) > 0
    /\ matchExact(NormalizeAll(CurrentOptions(fs)), input).kind = "none"
    /\ BestFuzzy(fs, input).kind = "suggestion"

\* the text handed to the engine: the suggested option's id for a yes to a
\* pending suggestion, the input otherwise
EngineInput(cv, input) ==
    IF cv.pending # << >> /\ LowerCase(Trim(input)) \in affirmative
    THEN cv.pending[1].optionId ELSE input

\* the input is one the service counts as an invalid attempt: a no to a
\* pending suggestion; in the fallback phase, a text that is neither fallback
\* choice; otherwise a text (or, for a yes, a suggested id) the engine
\* refuses at a node whose id is a node of the menu flow, with no fuzzy
\* match of the input at the confirmation threshold
Counted(fs, cv, t, input) ==
    /\ input # E /\ ~(cv.lockedUntil > t)
    /\ \/ cv.pending # << >> /\ LowerCase(Trim(input)) \in negative
       \/ /\ ~AnswersSuggestion(cv, input)
          /\ cv.phase = "fallback"
          /\ matchFallbackInput(LowerCase(Trim(input))) = "null"
       \/ /\ ~(cv.pending # << >> /\ LowerCase(Trim(input)) \in negative)
          /\ AnswersSuggestion(cv, input) \/ cv.phase # "fallback"
          /\ storeHas(fs) /\ Len(CurrentOptions(fs)) > 0
          /\ matchExact(NormalizeAll(CurrentOptions(fs)), EngineInput(cv, input)).kind
                = "none"
          /\ fs.current \in NodeIds(menuFlow)
          /\ suggest(NormalizeAll(menuFlow.nodes[fs.current].options), input,
                     FUZZY_CONFIRMATION_THRESHOLD).kind # "suggestion"

C4_ValidSelectionAlwaysResets ==
    [][\A c \in SessionChats :
          (Call(c) /\ ValidSelection(store[c], conv[c], now, out'.input))
              => (conv'[c].attempts = 0 /\ conv'[c].phase = "initial")]_vars

\* C4 amended: outside the fallback phase, an exact match of an option of
\* the current node resets attempts to 0 and the phase to initial.  In the
\* fallback phase the input is read as a fallback choice before the engine
\* sees it: back-to-menu resets the ladder and leaves the flow where it is,
\* wait-for-agent locks the conversation with the count kept, and any other
\* text, an option of the node included, is counted as one more attempt.
C4_ValidSelectionResetsOutsideFallback ==
    [][\A c \in SessionChats :
          (Call(c) /\ ValidSelection(store[c], conv[c], now, out'.input)
                   /\ ~AnswersSuggestion(conv[c], out'.input))
              => IF conv[c].phase # "fallback"
                 THEN /\ conv'[c].attempts = 0 /\ conv'[c].phase = "initial"
                      /\ conv'[c].pending = << >>
                      /\ Has(out'.ev, <<"engine", "advance", "", "">>)
                 ELSE /\ ~EngineCalls(out'.ev) /\ store'[c] = store[c]
                      /\ LET choice == matchFallbackInput(LowerCase(Trim(out'.input)))
                         IN  /\ choice = "voltar_menu"
                                 => (conv'[c].attempts = 0 /\ conv'[c].phase = "initial")
                             /\ choice = "aguardar_atendente"
                                 => /\ conv'[c].attempts = conv[c].attempts
                                    /\ conv'[c].lockedUntil > now
                             /\ choice = "null"
                                 => conv'[c].attempts = conv[c].attempts + 1]_vars

\* C4 happens: after one counted attempt, in the initial phase, an exact
\* match was advanced by the engine and the ladder is back at zero
C4_ResetAfterAttempt ==
    \E c \in SessionChats :
        /\ out.op = "advanceOrRestart" /\ out.chat = c
        /\ out.was.attempts = 1 /\ out.was.phase = "initial"
        /\ out.res.ok /\ Has(out.ev, EvValid)
        /\ conv[c].attempts = 0 /\ conv[c].phase = "initial"

InBand(fs, input) ==
    /\ 100 * BestFuzzy(fs, input).num >= FUZZY_SUGGESTION_THRESHOLD * BestFuzzy(fs, input).den
    /\ 100 * BestFuzzy(fs, input).num < FUZZY_CONFIRMATION_THRESHOLD * BestFuzzy(fs, input).den

\* C7 as stated: an invalid input at a menu node whose best fuzzy match is in
\* the band makes the service ask for confirmation: a pending suggestion is
\* stored and the suggestion prompt is sent, and the flow is not advanced.
C7_BandAsksConfirmation ==
    [][\A c \in SessionChats :
          (/\ Call(c)
           /\ ReachesSuggestion(store[c], conv[c], now, out'.input)
           /\ InBand(store[c], out'.input))
          => /\ conv'[c].pending # << >>
             /\ Has(out'.ev, EvText("suggestionPrompt"))
             /\ store'[c] = store[c]]_vars

\* C7 amended: an invalid input at a menu node whose best fuzzy match is in
\* the band is handled as an unmatched input: no suggestion is stored, no
\* suggestion prompt is sent, one invalid attempt is counted and the
\* escalation ladder answers (retry, fallback menu, or closing and lock);
\* the flow is not advanced.
C7_BandCountsAsInvalid ==
    [][\A c \in SessionChats :
          (/\ Call(c)
           /\ ReachesSuggestion(store[c], conv[c], now, out'.input)
           /\ InBand(store[c], out'.input))
          => /\ conv'[c].pending = << >>
             /\ ~Has(out'.ev, EvPending)
             /\ ~Has(out'.ev, EvText("suggestionPrompt"))
             /\ Has(out'.ev, EvInvalid)
             /\ conv'[c].attempts = conv[c].attempts + 1
             /\ \/ Has(out'.ev, EvText("friendlyRetry"))
                \/ Has(out'.ev, EvText("fallbackRetry"))
                \/ Has(out'.ev, EvText("fallbackClosure"))
             /\ store'[c] = store[c]]_vars

\* C7 happens: an input two edits away from a four-letter option has just
\* been counted as an invalid attempt at the menu, with nothing pending
C7_BandInputCounted ==
    \E c \in SessionChats :
        /\ out.op = "advanceOrRestart" /\ out.chat = c
        /\ out.input = <<"o", "r", "x", "x">>
        /\ out.was.attempts = 0
        /\ Has(out.ev, EvInvalid) /\ Has(out.ev, EvText("friendlyRetry"))
        /\ conv[c].attempts = 1 /\ conv[c].pending = << >>
        /\ store[c] = FlowState("menu", "inicio")

LockNodes ==
    {id \in NodeIds(menuFlow) : menuFlow.nodes[id].lockOnComplete}
    \cup {id \in NodeIds(catalogFlow) \ NodeIds(menuFlow) :
             catalogFlow.nodes[id].lockOnComplete}

\* C9: when an advance ends on a terminal node flagged lockOnComplete the
\* terminal prompt is sent first, then the valid-selection reset is stored,
\* then the lock, then the locked notice; afterwards the conversation is
\* locked for the lock duration, attempts is 0, the FlowState is deleted and
\* resetDelay was not called.  For a terminal node without the flag no lock
\* is stored and resetDelay is called after the reset.
C9_LockOnCompleteAfterPrompt ==
    \A c \in SessionChats :
        (/\ out.op = "advanceOrRestart" /\ out.chat = c
         /\ Has(out.ev, <<"engine", "advance", "", "">>)
         /\ out.res.ok /\ out.res.terminal)
        => /\ Has(out.ev, <<"send", "prompt", "", out.res.nodeId>>)
           /\ Before(out.ev, <<"send", "prompt", "", out.res.nodeId>>, EvValid)
           /\ ~storeHas(store[c])
           /\ conv[c].attempts = 0 /\ conv[c].phase = "initial"
           /\ IF out.res.nodeId \in LockNodes
              THEN /\ Before(out.ev, <<"send", "prompt", "", out.res.nodeId>>, EvLock)
                   /\ Before(out.ev, EvValid, EvLock)
                   /\ Before(out.ev, EvLock, EvText("lockedNotice"))
                   /\ ~Has(out.ev, <<"resetDelay", "", "", "">>)
                   /\ conv[c].lockedUntil = now + LOCK_DURATION_MS
                   /\ getLockStatus(conv[c], now).locked
              ELSE /\ ~Has(out.ev, EvLock)
                   /\ conv[c].lockedUntil = 0
                   /\ Before(out.ev, EvValid, <<"resetDelay", "", "", "">>)

\* C9 happens: the lockOnComplete node of the menu has just been selected
\* after a counted attempt, and the conversation is locked with attempts 0
C9_LockedOnComplete ==
    \E c \in SessionChats :
        /\ out.op = "advanceOrRestart" /\ out.chat = c
        /\ out.res.ok /\ out.res.terminal /\ out.res.nodeId = "outras"
        /\ out.was.attempts = 1
        /\ conv[c].attempts = 0 /\ conv[c].lockedUntil > now
        /\ store[c] = NoState

\* the terminal nodes without the flag are reached too
C9_TerminalWithoutLock ==
    \E c \in SessionChats :
        /\ out.op = "advanceOrRestart" /\ out.chat = c
        /\ out.res.ok /\ out.res.terminal /\ out.res.nodeId = "final"
        /\ conv[c].lockedUntil = 0

-----------------------------------------------------------------------------
(* The flow engine over a store that is also written from outside: the     *)
(* FlowStateStore is handed to the engine's constructor, and whoever holds *)
(* it can set a FlowState that no start has validated.                     *)

\* a node id that no flow definition has
MissingNode == "missing-node"

\* store.set(c, {flow: FlowDefs[key], current: nodeId})
StoreSet(c, key, nodeId) ==
    /\ store' = [store EXCEPT ![c] = storeSet(@, FlowState(key, nodeId))]
    /\ out' = Out("set", c, E, key, TRUE, NoResult, << >>, NoStatus, NoAttempts)
    /\ UNCHANGED <<conv, tracker, now, invalidRun>>
    /\ UNCHANGED auxVars

NextStore ==
    \/ \E c \in Chats, key \in FlowKeys : EngineStart(c, key)
    \/ \E c \in Chats, input \in EngineInputs : EngineAdvance(c, input)
    \/ \E c \in Chats : EngineCancel(c)
    \/ \E c \in Chats, key \in FlowKeys :
          \E nodeId \in NodeIds(FlowDefs[key]) \cup {MissingNode} : StoreSet(c, key, nodeId)

SpecStore == Init /\ [][NextStore]_vars

\* the option of the stored node that the input selects, 0 when none does or
\* when the node is absent or has no options
Selected(fs, input) ==
    IF /\ storeHas(fs)
       /\ fs.current \in NodeIds(FlowDefs[fs.flow])
       /\ Len(CurrentOptions(fs)) > 0
    THEN matchExact(NormalizeAll(CurrentOptions(fs)), input).idx
    ELSE 0

\* C11: an advance on a FlowState whose current node is absent from the flow
\* answers no_node with that node id, and one whose selected option names an
\* absent next node answers next_inexistente with that next id; both delete
\* the FlowState, so isActive is false afterwards.  An advance deletes the
\* FlowState only with one of these two errors or with a terminal result;
\* input_invalido and sem_fluxo_ativo leave every chat's FlowState as it was,
\* and no advance touches another chat's FlowState.
C11_IntegrityErrorsClearState ==
    [][\A c \in Chats : (out'.op = "advance" /\ out'.chat = c) =>
          /\ (storeHas(store[c]) /\ store[c].current \notin NodeIds(FlowDefs[store[c].flow]))
                => /\ ~out'.res.ok /\ out'.res.error = "no_node"
                   /\ out'.res.nodeId = store[c].current
                   /\ ~engineIsActive(store'[c])
          /\ (/\ Selected(store[c], out'.input) # 0
              /\ CurrentOptions(store[c])[Selected(store[c], out'.input)].next
                    \notin NodeIds(FlowDefs[store[c].flow]) \cup {""})
                => /\ ~out'.res.ok /\ out'.res.error = "next_inexistente"
                   /\ out'.res.nodeId =
                         CurrentOptions(store[c])[Selected(store[c], out'.input)].next
                   /\ ~engineIsActive(store'[c])
          /\ (storeHas(store[c]) /\ ~storeHas(store'[c]))
                => \/ out'.res.error \in {"no_node", "next_inexistente"}
                   \/ out'.res.ok /\ out'.res.terminal
          /\ out'.res.error \in {"no_node", "next_inexistente"} => ~storeHas(store'[c])
          /\ out'.res.error \in {"input_invalido", "sem_fluxo_ativo"} => store' = store
          /\ \A d \in Chats \ {c} : store'[d] = store[d]]_vars

\* C11 happens: an advance has just answered next_inexistente for the next
\* id of the option it selected, and the chat is inactive
C11_MissingNextCleared ==
    /\ out.op = "advance" /\ out.res.error = "next_inexistente"
    /\ out.key = "dangling" /\ out.res.nodeId = "zz"
    /\ out.input = <<"x">>
    /\ ~storeHas(store[out.chat])

\* the other integrity error happens too: no_node for a missing current node
C11_MissingNodeCleared ==
    /\ out.op = "advance" /\ out.res.error = "no_node"
    /\ out.res.nodeId = MissingNode
    /\ ~storeHas(store[out.chat])

\* the input names option k of the list: it is its id, its 1-based position,
\* one of its aliases or its text, up to trimming for the id and up to
\* trimming, case and inner blanks for alias and text
Names(options, k, input) ==
    \/ Trim(input) = Trim(options[k].id)
    \/ Trim(input) = <<DigitChar[k]>>
    \/ \E a \in 1..Len(options[k].aliases) :
          normalizeText(input) = normalizeText(options[k].aliases[a])
    \/ normalizeText(input) = normalizeText(options[k].text)

\* the node of a stored FlowState exists and has options
AtOptions(fs) ==
    /\ storeHas(fs)
    /\ fs.current \in NodeIds(FlowDefs[fs.flow])
    /\ Len(CurrentOptions(fs)) > 0

\* C12 as stated: at every node with options, an input that is exactly an
\* option's id, position, alias or text (up to normalisation) never gets
\* input_invalido from advance.
C12_NamedOptionNeverInvalid ==
    [][\A c \in Chats :
          (/\ out'.op = "advance" /\ out'.chat = c
           /\ AtOptions(store[c])
           /\ \E k \in 1..Len(CurrentOptions(store[c])) :
                 Names(CurrentOptions(store[c]), k, out'.input))
          => out'.res.error # "input_invalido"]_vars

\* C12 amended: at every node with options, a non-blank input that is exactly
\* an option's id, position, alias or text (up to normalisation) never gets
\* input_invalido from advance; a blank input always gets it, also when an
\* option has a blank alias (or, in an unvalidated flow, a blank id or text).
C12_NonBlankNamedOptionNeverInvalid ==
    [][\A c \in Chats :
          (out'.op = "advance" /\ out'.chat = c /\ AtOptions(store[c]))
          => /\ (/\ Trim(out'.input) # E
                 /\ \E k \in 1..Len(CurrentOptions(store[c])) :
                       Names(CurrentOptions(store[c]), k, out'.input))
                => out'.res.error # "input_invalido"
             /\ Trim(out'.input) = E => out'.res.error = "input_invalido"]_vars

\* C12 happens: the text of an option, given with other case and blanks, has
\* just advanced the flow to the option's next node
C12_TextAdvanced ==
    /\ out.op = "advance" /\ out.input = <<" ", "g", "O", " ">>
    /\ out.key = "cyclic" /\ out.res.ok /\ out.res.nodeId = "t"
    /\ store[out.chat] = FlowState("cyclic", "t")

-----------------------------------------------------------------------------
(* The option matcher taken alone: buildOptionMatcher over an option list, *)
(* then match on an input                                                  *)

\* the longest option list the matcher is built on
MaxOptions == 2

\* the one set of strings that ids, texts, aliases and inputs are drawn
\* from: the position numerals and a capital letter followed by a blank
MatcherStrings == { <<"1">>, <<"2">>, <<"A", " ">> }

\* an option has no alias or one
AliasLists == { << >>, << <<"1">> >>, << <<"A", " ">> >> }

MatcherOptions ==
    { Opt(id, text, aliases, "") :
        id \in MatcherStrings, text \in MatcherStrings, aliases \in AliasLists }

OptionLists ==
    UNION { [1..n -> MatcherOptions] : n \in 1..MaxOptions }

\* what is matched: those strings, the letter in lower case, a blank, a miss
MatcherInputs == MatcherStrings \cup { E, <<" ">>, <<"a">>, <<"z">> }

\* buildOptionMatcher(options) for any option list
InitMatcher ==
    /\ store = [c \in Chats |-> NoState]
    /\ conv = [c \in Chats |-> NoConv]
    /\ tracker = [c \in Chats |-> NoEntry]
    /\ now = 0
    /\ out = Out("init", "", E, "", FALSE, NoResult, << >>, NoStatus, NoAttempts)
    /\ invalidRun = [c \in Chats |-> 0]
    /\ built \in OptionLists
    /\ lastMatch = NotMatched
    /\ serviceOptions = DefaultOptions
    /\ rate = newRateController(FALSE)
    /\ sends = [p \in Callers |-> IdleSend]
    /\ gatedSinceRefill = 0
    /\ calls = [h \in Handlers |-> IdleCall]
    /\ InitExtra

\* buildOptionMatcher(built).match(input)
Match(input) ==
    /\ \E r \in {matchExact(NormalizeAll(built), input)} :
          lastMatch' = [input |-> input, kind |-> r.kind, matchedBy |-> r.matchedBy,
                      idx |-> r.idx]
    /\ UNCHANGED <<extraVars, store, conv, tracker, now, out, invalidRun, built, serviceOptions,
                   rateVars, calls>>

NextMatcher == \E input \in MatcherInputs : Match(input)

SpecMatcher == InitMatcher /\ [][NextMatcher]_vars

\* the options of the built list, as the matcher holds them
BuiltOptions == NormalizeAll(built)

\* option k of the built list is the one the last match answered for its text
TextOf(k) == lastMatch'.input = built[k].text

\* a different option claims the text of option k by a lookup that comes
\* before the text: by its id, by its position numeral or by an alias
ClaimedById(k, h) == h # k /\ BuiltOptions[h].id = Trim(built[k].text)

ClaimedByPosition(k, h) ==
    /\ h # k
    /\ IsDigits(Trim(built[k].text))
    /\ NumberOf(Trim(built[k].text)) = h

ClaimedByAlias(k, h) ==
    /\ h # k
    /\ \E a \in 1..Len(BuiltOptions[h].aliases) :
          normalizeText(BuiltOptions[h].aliases[a]) = normalizeText(built[k].text)

Unclaimed(k) ==
    \A h \in 1..Len(built) :
        ~ClaimedById(k, h) /\ ~ClaimedByPosition(k, h) /\ ~ClaimedByAlias(k, h)

\* C13 as stated: on every list that passes validateAnswerOptions, matching
\* the text of an option answers that option itself
C13_TextRoundTrip ==
    [][validateAnswerOptions(built) =>
          \A k \in 1..Len(built) :
              TextOf(k) => lastMatch'.kind = "exact" /\ lastMatch'.idx = k]_vars

\* C13: on every list that passes validateAnswerOptions, matching the text of
\* an option always answers an exact match; it answers that option itself
\* whenever no other option has that text as its id, its position numeral or
\* an alias, and it answers the other option when that option's id is the text
C13_UnclaimedTextRoundTrip ==
    [][validateAnswerOptions(built) =>
          \A k \in 1..Len(built) :
              TextOf(k) =>
                  /\ lastMatch'.kind = "exact"
                  /\ Unclaimed(k) => lastMatch'.idx = k
                  /\ \A h \in 1..Len(built) :
                        ClaimedById(k, h) => lastMatch'.idx = h]_vars

\* a valid two-option list in which the text of the second option, claimed by
\* nobody else, was matched and answered the second option
C13_SecondTextMatched ==
    /\ Len(built) = 2
    /\ validateAnswerOptions(built)
    /\ lastMatch.input = built[2].text
    /\ \A h \in 1..2 : built[h].id # Trim(built[2].text)
    /\ ~IsDigits(Trim(built[2].text))
    /\ built[1].aliases = << >> /\ built[2].aliases = << >>
    /\ lastMatch.kind = "exact"
    /\ lastMatch.matchedBy = "text"
    /\ lastMatch.idx = 2

\* the option the last match answered, when it answered one
MatchedOption == BuiltOptions[lastMatch'.idx]

IdHit(input) == \E h \in 1..Len(built) : BuiltOptions[h].id = Trim(input)

PositionHit(input) ==
    IsDigits(Trim(input)) /\ NumberOf(Trim(input)) \in 1..Len(built)

AliasHit(input) ==
    \E h \in 1..Len(built) : \E a \in 1..Len(BuiltOptions[h].aliases) :
        /\ normalizeText(input) # E
        /\ normalizeText(BuiltOptions[h].aliases[a]) = normalizeText(input)

TextHit(input) ==
    \E h \in 1..Len(built) :
        /\ normalizeText(input) # E
        /\ normalizeText(BuiltOptions[h].text) = normalizeText(input)

\* C14: the exact matcher looks the trimmed input up as an id, then as a
\* 1-based position, then as an alias, then as a text, and the first lookup
\* that hits decides; an empty input, and an input that hits nothing, is
\* answered with no match
C14_PriorityIdIndexAliasText ==
    [][\A input \in MatcherInputs :
          lastMatch'.input = input =>
              IF Trim(input) = E THEN lastMatch'.kind = "none"
              ELSE IF IdHit(input)
                   THEN /\ lastMatch'.kind = "exact"
                        /\ lastMatch'.matchedBy = "id"
                        /\ MatchedOption.id = Trim(input)
              ELSE IF PositionHit(input)
                   THEN /\ lastMatch'.kind = "exact"
                        /\ lastMatch'.matchedBy = "index"
                        /\ lastMatch'.idx = NumberOf(Trim(input))
              ELSE IF AliasHit(input)
                   THEN /\ lastMatch'.kind = "exact"
                        /\ lastMatch'.matchedBy = "alias"
                        /\ \E a \in 1..Len(MatchedOption.aliases) :
                              normalizeText(MatchedOption.aliases[a]) = normalizeText(input)
              ELSE IF TextHit(input)
                   THEN /\ lastMatch'.kind = "exact"
                        /\ lastMatch'.matchedBy = "text"
                        /\ normalizeText(MatchedOption.text) = normalizeText(input)
              ELSE lastMatch'.kind = "none"]_vars

\* the input "1" is the id of the second option, the position of the first,
\* and the alias and the text of the first: the second option was answered,
\* by its id
C14_IdWonOverPositionAliasText ==
    /\ Len(built) = 2
    /\ built[2].id = <<"1">>
    /\ built[1].id = <<"2">>
    /\ built[1].text = <<"1">>
    /\ built[1].aliases = << <<"1">> >>
    /\ lastMatch.input = <<"1">>
    /\ lastMatch.kind = "exact"
    /\ lastMatch.matchedBy = "id"
    /\ lastMatch.idx = 2

-----------------------------------------------------------------------------
(* The session service under every choice of its options: a menu or a     *)
(* catalog definition the engine refuses to start, the menu disabled      *)

OptionChoices ==
    [menu : {"menu", "nostart"}, catalog : {"catalog", "dangling"},
     menuFlowEnabled : BOOLEAN]

\* the message bodies of this specification: two indexes, noise, yes
OptionInputs == { <<"1">>, <<"3">>, <<"z","z">>, <<"s","i","m">> }

InitOptions ==
    /\ store = [c \in Chats |-> NoState]
    /\ conv = [c \in Chats |-> NoConv]
    /\ tracker = [c \in Chats |-> NoEntry]
    /\ now = 0
    /\ out = Out("init", "", E, "", FALSE, NoResult, << >>, NoStatus, NoAttempts)
    /\ invalidRun = [c \in Chats |-> 0]
    /\ built = << >>
    /\ lastMatch = NotMatched
    /\ serviceOptions \in OptionChoices
    /\ rate = newRateController(FALSE)
    /\ sends = [p \in Callers |-> IdleSend]
    /\ gatedSinceRefill = 0
    /\ calls = [h \in Handlers |-> IdleCall]
    /\ InitExtra

NextOptions ==
    \/ \E c \in SessionChats, input \in OptionInputs : AdvanceOrRestart(c, input)
    \/ \E c \in SessionChats, key \in SessionKeys : CommandStart(c, key)
    \/ Tick

SpecOptions == InitOptions /\ [][NextOptions]_vars

\* the conversation as advanceOrRestart holds it after its lock check
AfterLockRead(c) == getLockStatus(conv[c], now).cv

\* a call of advanceOrRestart that reaches the inactive branch: an input, no
\* lock, no yes or no to a pending suggestion, no fallback phase, no flow
InactiveCall(c) ==
    /\ Call(c)
    /\ out'.input # E
    /\ ~getLockStatus(conv[c], now).locked
    /\ ~AnswersSuggestion(AfterLockRead(c), out'.input)
    /\ getAttempts(AfterLockRead(c), now).phase # "fallback"
    /\ ~engineIsActive(store[c])

EvStart(key) == <<"engine", "start", key, "">>

\* the engine accepts the definition the registry holds under key
Startable(key) == validateOptionFlow(FlowDefs[getFlowDefinition(key)]).ok

\* every send and every engine call of ev comes after the event first
ComesFirst(ev, first) ==
    \A i \in 1..Len(ev) :
        (ev[i][1] \in {"send", "engine"} /\ ev[i] # first) =>
            \E j \in 1..(i - 1) : ev[j] = first

\* the prompt of the start node of the definition under key was sent
StartPromptSent(ev, key) ==
    \E i \in 1..Len(ev) :
        /\ ev[i][1] = "send"
        /\ ev[i][2] \in {"list", "content"}
        /\ ev[i][3] = getFlowDefinition(key)
        /\ ev[i][4] = FlowDefs[getFlowDefinition(key)].start

\* resumeIfPossible restarts: a digit-only input and a recent prompt
Resumable(c) == IsDigits(out'.input) /\ recentFlowKey(tracker[c], now) # ""

C15_MenuStartedOnInactive ==
    /\ out.op = "advanceOrRestart"
    /\ out.input = <<"1">>
    /\ out.ev = <<EvStart("menu"), <<"send", "prompt", "menu", "inicio">>,
                  <<"send", "list", "menu", "inicio">>, EvValid,
                  <<"resetDelay", "", "", "">> >>
    /\ store[out.chat] = FlowState("menu", "inicio")

\* neither the menu nor a recent flow could be started: only the
\* flow-unavailable text was sent
C15_UnavailableAfterBoth ==
    /\ out.op = "advanceOrRestart"
    /\ out.ev = <<EvStart("menu"), EvText("flowUnavailableText")>>

\* C16 as stated: on a chat with no active flow, a digit-only reply within
\* the prompt window of a remembered prompt of flow K starts K (the catalog
\* in place of a disabled menu), and the expired notice precedes the
\* restarted prompt
C16_ReentryStartsSameFlow ==
    [][\A c \in SessionChats :
          (InactiveCall(c) /\ Resumable(c)) =>
              /\ storeHas(store'[c]) =>
                    store'[c].flow =
                        getFlowDefinition(StrategyFlow(recentFlowKey(tracker[c], now)))
              /\ \A i \in 1..Len(out'.ev) :
                    (out'.ev[i][1] = "send" /\ out'.ev[i][2] \in {"list", "content", "prompt"})
                        => \E j \in 1..(i - 1) : out'.ev[j] = EvText("expiredFlowText")]_vars

-----------------------------------------------------------------------------
(* RateController: the per-chat cooldown and the global token bucket, with *)
(* several withSend calls in flight. Each action is one synchronous        *)
(* stretch of the code, from one await to the next.                        *)

\* faulty variant of takeToken: the token is taken without the bucket being
\* looked at
takeTokenUnchecked(r, send) ==
    [rate |-> [r EXCEPT !.tokens = @ - 1],
     send |-> [send EXCEPT !.pc = "sending"], started |-> TRUE]

\* while (this._tokens <= 0) await sleep(...); this._tokens -= 1; fn():
\* with no token the caller sleeps and looks again, with one it takes it and
\* calls fn in the same stretch
takeToken(r, send) ==
    IF r.tokens <= 0
    THEN [rate |-> r, send |-> [send EXCEPT !.pc = "polling"], started |-> FALSE]
    ELSE [rate |-> [r EXCEPT !.tokens = @ - 1],
          send |-> [send EXCEPT !.pc = "sending"], started |-> TRUE]

\* this._lastSendAtByChat.get(chatId) || 0
lastSendAt(r, c) == IF r.lastSendAtByChat[c] = NoSend THEN 0 ELSE r.lastSendAtByChat[c]

waitMs(r, c, t) == Max2(0, lastSendAt(r, c) + perChatCooldownMs - t)

\* withSend(chatId, fn) up to its first await
withSendBegin(r, c, t) ==
    IF r.isTest
    THEN [rate |-> r, send |-> [pc |-> "sending", chat |-> c, wakeAt |-> 0],
          started |-> TRUE]
    ELSE IF waitMs(r, c, t) > 0
    THEN [rate |-> r,
          send |-> [pc |-> "sleeping", chat |-> c, wakeAt |-> t + waitMs(r, c, t)],
          started |-> FALSE]
    ELSE takeToken(r, [pc |-> "idle", chat |-> c, wakeAt |-> 0])

\* the outcome w of a stretch of caller p taken into the state
Gated(p, w) ==
    /\ rate' = w.rate
    /\ sends' = [sends EXCEPT ![p] = w.send]
    /\ gatedSinceRefill' =
          IF w.started /\ ~rate.isTest THEN gatedSinceRefill + 1 ELSE gatedSinceRefill
    /\ UNCHANGED <<extraVars, store, conv, tracker, now, out, invalidRun, matcherVars,
                   serviceOptions, calls>>

\* rate.withSend(c, fn) is called
WithSend(p, c) ==
    /\ sends[p].pc = "idle"
    /\ Gated(p, withSendBegin(rate, c, now))

\* sleep(waitMs) is over
Wake(p) ==
    /\ sends[p].pc = "sleeping"
    /\ now >= sends[p].wakeAt
    /\ Gated(p, takeToken(rate, sends[p]))

\* the sleep inside the token loop is over: the bucket is looked at again
Poll(p) ==
    /\ sends[p].pc = "polling"
    /\ Gated(p, takeToken(rate, sends[p]))

\* fn() settles: finally { this._lastSendAtByChat.set(chatId, Date.now()) },
\* which test mode returns before
Finish(p) ==
    /\ sends[p].pc = "sending"
    /\ rate' = IF rate.isTest THEN rate
               ELSE [rate EXCEPT !.lastSendAtByChat[sends[p].chat] = now]
    /\ sends' = [sends EXCEPT ![p] = IdleSend]
    /\ UNCHANGED <<extraVars, store, conv, tracker, now, out, invalidRun, matcherVars,
                   serviceOptions, calls, gatedSinceRefill>>

\* faulty variant of Refill: the interval fires and leaves the bucket as it is
RefillLeavesBucket ==
    /\ rate.refill
    /\ UNCHANGED vars

\* the setInterval callback of start()
Refill ==
    /\ rate.refill
    /\ rate' = [rate EXCEPT !.tokens = globalMaxPerInterval]
    /\ gatedSinceRefill' = 0
    /\ UNCHANGED <<extraVars, store, conv, tracker, now, out, invalidRun, matcherVars,
                   serviceOptions, calls, sends>>

\* start(): nothing in test mode or when the timer runs already
RateStart ==
    /\ ~rate.isTest
    /\ ~rate.refill
    /\ rate' = [rate EXCEPT !.tokens = globalMaxPerInterval, !.refill = TRUE]
    /\ gatedSinceRefill' = 0
    /\ UNCHANGED <<extraVars, store, conv, tracker, now, out, invalidRun, matcherVars,
                   serviceOptions, calls, sends>>

\* stop(): the timer is cleared and the bucket is filled
RateStop ==
    /\ rate.refill
    /\ rate' = [rate EXCEPT !.tokens = globalMaxPerInterval, !.refill = FALSE]
    /\ gatedSinceRefill' = 0
    /\ UNCHANGED <<extraVars, store, conv, tracker, now, out, invalidRun, matcherVars,
                   serviceOptions, calls, sends>>

InitRate ==
    /\ store = [c \in Chats |-> NoState]
    /\ conv = [c \in Chats |-> NoConv]
    /\ tracker = [c \in Chats |-> NoEntry]
    /\ now = 0
    /\ out = Out("init", "", E, "", FALSE, NoResult, << >>, NoStatus, NoAttempts)
    /\ invalidRun = [c \in Chats |-> 0]
    /\ built = << >>
    /\ lastMatch = NotMatched
    /\ serviceOptions = DefaultOptions
    /\ \E isTest \in BOOLEAN : rate = newRateController(isTest)
    /\ sends = [p \in Callers |-> IdleSend]
    /\ gatedSinceRefill = 0
    /\ calls = [h \in Handlers |-> IdleCall]
    /\ InitExtra

NextRate ==
    \/ \E p \in Callers, c \in Chats : WithSend(p, c)
    \/ \E p \in Callers : Wake(p)
    \/ \E p \in Callers : Poll(p)
    \/ \E p \in Callers : Finish(p)
    \/ Refill
    \/ RateStart
    \/ RateStop
    \/ Tick

SpecRate == InitRate /\ [][NextRate]_vars

\* caller p starts its gated call in this step
StartsSending(p) == sends[p].pc # "sending" /\ sends'[p].pc = "sending"

\* C17: outside test mode the token counter never goes below 0, at most
\* globalMaxPerInterval gated calls are started between two fillings of the
\* bucket, and a gated call starts in the very step that takes its token
\* from a bucket that held one
C17_GlobalBudget ==
    /\ [](~rate.isTest =>
              /\ rate.tokens >= 0
              /\ gatedSinceRefill <= globalMaxPerInterval
              /\ rate.tokens + gatedSinceRefill = globalMaxPerInterval)
    /\ [][\A p \in Callers :
              (~rate.isTest /\ StartsSending(p)) =>
                  rate.tokens > 0 /\ rate'.tokens = rate.tokens - 1]_vars

\* the bucket is spent: two gated calls are running on its two tokens and a
\* third caller waits for the refill
C17_ThirdCallerWaits ==
    /\ ~rate.isTest
    /\ rate.tokens = 0
    /\ gatedSinceRefill = globalMaxPerInterval
    /\ sends["s1"].pc = "sending"
    /\ sends["s2"].pc = "sending"
    /\ sends["s3"].pc = "polling"

\* C18 as stated: outside test mode a gated call to a chat starts only when
\* no other gated call to that chat is still running and the last one
\* finished at least perChatCooldownMs ago
C18_CooldownBetweenSends ==
    [][\A p \in Callers :
          (~rate.isTest /\ StartsSending(p)) =>
              /\ \A q \in Callers \ {p} :
                    ~(sends[q].pc = "sending" /\ sends[q].chat = sends'[p].chat)
              /\ rate.lastSendAtByChat[sends'[p].chat] # NoSend =>
                    now >= rate.lastSendAtByChat[sends'[p].chat] + perChatCooldownMs]_vars

-----------------------------------------------------------------------------
(* RateController with the refill timer of LifecycleManager.start: every   *)
(* caller makes one withSend call, and returned.value logs, in order, each *)
(* invocation of fn and what withSend handed back to its caller            *)

\* the log entries of caller p that say what
Logged(p, what) == { i \in 1..Len(returned.value) : returned.value[i] = <<p, what>> }

\* what withSend handed back to caller p: fn's result or its rejection
Outcomes == {"result", "rejection"}

HandedBack(p) == \E o \in Outcomes : Logged(p, o) # {}

\* the log after a stretch of caller p that called fn or not
logAfter(log, p, started) == IF started THEN Append(log, <<p, "fn">>) ELSE log

\* what a step of one withSend call leaves alone
SendFrame ==
    UNCHANGED <<store, conv, tracker, now, out, invalidRun, matcherVars, serviceOptions,
                calls, validatorVars, failure, inProgress, adminCalls, ttlMap,
                consumers, timeouts>>

\* the outcome w of a stretch of caller p taken into the state and the log
GatedCall(p, w) ==
    /\ rate' = w.rate
    /\ sends' = [sends EXCEPT ![p] = w.send]
    /\ gatedSinceRefill' =
          IF w.started /\ ~rate.isTest THEN gatedSinceRefill + 1 ELSE gatedSinceRefill
    /\ returned' = [returned EXCEPT !.value = logAfter(@, p, w.started)]
    /\ SendFrame

\* caller p makes its one call, early enough for its cooldown to end
\* before the clock stops
CallWithSend(p, c) ==
    /\ sends[p].pc = "idle"
    /\ Logged(p, "fn") = {}
    /\ now + perChatCooldownMs <= MaxTime
    /\ GatedCall(p, withSendBegin(rate, c, now))

\* sleep(waitMs) is over
WakeCall(p) ==
    /\ sends[p].pc = "sleeping"
    /\ now >= sends[p].wakeAt
    /\ GatedCall(p, takeToken(rate, sends[p]))

\* the sleep inside the token loop is over
PollCall(p) ==
    /\ sends[p].pc = "polling"
    /\ GatedCall(p, takeToken(rate, sends[p]))

\* fn() settled with outcome o: the finally block stamps the chat, then the
\* result or the rejection goes to the caller; test mode returned fn()
\* itself and stamps nothing
SettleCall(p, o) ==
    /\ sends[p].pc = "sending"
    /\ rate' = IF rate.isTest THEN rate
               ELSE [rate EXCEPT !.lastSendAtByChat[sends[p].chat] = now]
    /\ sends' = [sends EXCEPT ![p] = IdleSend]
    /\ returned' = [returned EXCEPT !.value = Append(@, <<p, o>>)]
    /\ UNCHANGED gatedSinceRefill
    /\ SendFrame

NextRateLive ==
    \/ \E p \in Callers, c \in SessionChats : CallWithSend(p, c)
    \/ \E p \in Callers : WakeCall(p)
    \/ \E p \in Callers : PollCall(p)
    \/ \E p \in Callers, o \in Outcomes : SettleCall(p, o)
    \/ Refill
    \/ RateStart
    \/ Tick

\* LifecycleManager.start calls rate.start(); timers fire, the interval
\* keeps firing, the clock runs and every fn settles
FairRate ==
    /\ WF_vars(RateStart)
    /\ WF_vars(Refill)
    /\ WF_vars(Tick)
    /\ \A p \in Callers :
          /\ WF_vars(WakeCall(p))
          /\ WF_vars(PollCall(p))
          /\ WF_vars(\E o \in Outcomes : SettleCall(p, o))

\* the controller as built outside test mode
InitRateLive == InitRate /\ ~rate.isTest

SpecRateLive == InitRateLive /\ [][NextRateLive]_vars /\ FairRate

\* fn was called at most once for p, and nothing was handed back before it
FnOnceBeforeOutcome(p) ==
    /\ Cardinality(Logged(p, "fn")) <= 1
    /\ Cardinality(Logged(p, "result") \cup Logged(p, "rejection")) <= 1
    /\ \A i \in Logged(p, "result") \cup Logged(p, "rejection") :
          \E j \in Logged(p, "fn") : j < i

\* the step hands fn's outcome back to caller p
Settles(p) == sends[p].pc = "sending" /\ sends'[p].pc = "idle"

\* C39: outside test mode, with the refill timer started by the lifecycle
\* and never stopped and each caller calling once, every withSend call
\* comes to call its fn, exactly once, and hands fn's result or rejection
\* back to its caller; the chat is stamped with the time fn settled either
\* way; a caller waiting for a token gets to send
C39_EveryCallReturns ==
    /\ \A p \in Callers :
          /\ (~rate.isTest /\ sends[p].pc # "idle") ~> (HandedBack(p) /\ sends[p].pc = "idle")
          /\ (~rate.isTest /\ sends[p].pc = "polling") ~> (sends[p].pc = "sending")
    /\ [](\A p \in Callers : FnOnceBeforeOutcome(p)
                             /\ (sends[p].pc = "sending" => Logged(p, "fn") # {})
                             /\ (HandedBack(p) => sends[p].pc = "idle"))
    /\ [][\A p \in Callers :
              (~rate.isTest /\ Settles(p)) =>
                  rate'.lastSendAtByChat[sends[p].chat] = now]_vars

\* all three callers were handed an outcome, a rejection among them, the
\* third having waited for the bucket to be filled again
C39_ThirdCallReturnedAfterRefill ==
    /\ ~rate.isTest
    /\ \A p \in Callers : HandedBack(p)
    /\ \E p \in Callers : Logged(p, "rejection") # {}
    /\ Len(returned.value) = 6
    /\ returned.value[1][2] = "fn" /\ returned.value[2][2] = "fn" /\ returned.value[3][2] = "fn"

-----------------------------------------------------------------------------
(* Inbound messages in flight: the 'message' listener starts handleIncoming *)
(* for every message, and each handler is followed through its             *)
(* FlowEngine.advance call, split at its two store awaits                   *)

\* the flows started and the message bodies of this specification
HandlerKeys == {"menu", "catalog"}

HandlerInputs == { <<"1">>, <<"3">>, <<"z","z">> }

\* advance reached a store.clear or the store.set: every outcome but
\* sem_fluxo_ativo and input_invalido
Writes(res) == res.ok \/ res.error \in {"no_node", "next_inexistente"}

\* faulty variant of storeAfter: the write is dropped when the stored state
\* is no longer the one that was read
storeAfterIfUnchanged(s, c, read, r) ==
    IF Writes(r.res) /\ s[c] = read THEN [s EXCEPT ![c] = r.fs] ELSE s

\* the store after advance, having read the state read, came to the outcome r
storeAfter(s, c, read, r) ==
    IF Writes(r.res) THEN [s EXCEPT ![c] = r.fs] ELSE s

\* client.on('message', ...): the listener runs handleIncoming, which awaits
\* messageRouter.route
HandleIncoming(h, c, input) ==
    /\ calls[h].pc = "idle"
    /\ calls' = [calls EXCEPT ![h] = [pc |-> "routing", chat |-> c, input |-> input,
                                      state |-> NoState]]
    /\ UNCHANGED <<extraVars, store, conv, tracker, now, out, invalidRun, matcherVars,
                   serviceOptions, rateVars>>

\* FlowEngine.advance: const state = await this.store.get(chatId)
AdvanceRead(h) ==
    /\ calls[h].pc = "routing"
    /\ calls' = [calls EXCEPT ![h].pc = "read", ![h].state = store[calls[h].chat]]
    /\ UNCHANGED <<extraVars, store, conv, tracker, now, out, invalidRun, matcherVars,
                   serviceOptions, rateVars>>

\* FlowEngine.advance after the read: the outcome is computed from the state
\* read, the store is cleared or set, the result is returned; out.ev holds
\* the state the call had read and the state it found in the store
AdvanceWrite(h) ==
    /\ calls[h].pc = "read"
    /\ \E r \in {engineAdvance(calls[h].state, calls[h].input)} :
          /\ store' = storeAfter(store, calls[h].chat, calls[h].state, r)
          /\ out' = Out("advance", calls[h].chat, calls[h].input, calls[h].state.flow,
                        r.res.ok, r.res,
                        << <<"read", calls[h].state.flow, calls[h].state.current, "">>,
                           <<"found", store[calls[h].chat].flow,
                             store[calls[h].chat].current, "">> >>,
                        NoStatus, NoAttempts)
    /\ calls' = [calls EXCEPT ![h] = IdleCall]
    /\ UNCHANGED <<conv, tracker, now, invalidRun, matcherVars, serviceOptions, rateVars, extraVars>>

NextHandlers ==
    \/ \E h \in Handlers, c \in Chats, input \in HandlerInputs : HandleIncoming(h, c, input)
    \/ \E h \in Handlers : AdvanceRead(h)
    \/ \E h \in Handlers : AdvanceWrite(h)
    \/ \E c \in Chats, key \in HandlerKeys : EngineStart(c, key)

SpecHandlers == Init /\ [][NextHandlers]_vars

\* handler h is between the arrival of its message and the end of its
\* processing
InFlight(h) == calls[h].pc # "idle"

\* C19 as stated: the processing of a message of a chat does not start
\* before the processing of the previous message of that chat has completed
C19_OneMessagePerChatInFlight ==
    \A h, g \in Handlers :
        (h # g /\ InFlight(h) /\ InFlight(g)) => calls[h].chat # calls[g].chat

\* handler h finishes its advance in this step
Advances(h) == calls[h].pc = "read" /\ calls'[h].pc = "idle"

\* C20: an advance that reaches a store write leaves in the store exactly
\* what follows from the state it had read itself, whatever another call has
\* stored for the chat in the meantime, and it leaves the FlowState of every
\* other chat as it was
C20_LastWriterWins ==
    [][\A h \in Handlers :
          Advances(h) =>
              /\ Writes(out'.res) =>
                    store'[calls[h].chat] =
                        engineAdvance(calls[h].state, calls[h].input).fs
              /\ ~Writes(out'.res) => store'[calls[h].chat] = store[calls[h].chat]
              /\ \A d \in Chats \ {calls[h].chat} : store'[d] = store[d]]_vars

\* two calls for one chat had both read the catalog's start node; one ended
\* at a terminal node and deleted the state, then the other stored its own
\* next node: the state deleted is there again
C20_DeletedStateRecreated ==
    /\ out.op = "advance"
    /\ out.ev = << <<"read", "catalog", "inicio", "">>, <<"found", "", "", "">> >>
    /\ store[out.chat] = FlowState("catalog", "consertos")

\* two calls for one chat are in flight and have read the same FlowState
C20_BothReadSameState ==
    /\ calls["h1"].pc = "read" /\ calls["h2"].pc = "read"
    /\ calls["h1"].chat = calls["h2"].chat
    /\ calls["h1"].state = calls["h2"].state
    /\ calls["h1"].state # NoState

-----------------------------------------------------------------------------
(* The transitions of FlowEngine.advance, checked under SpecEngine *)

\* the input of the step matches an option of the chat's current node exactly
ExactStep(c) ==
    /\ out'.op = "advance" /\ out'.chat = c
    /\ storeHas(store[c])
    /\ store[c].current \in NodeIds(FlowDefs[store[c].flow])
    /\ Len(FlowDefs[store[c].flow].nodes[store[c].current].options) > 0
    /\ matchExact(NormalizeAll(FlowDefs[store[c].flow].nodes[store[c].current].options),
                  out'.input).kind = "exact"

\* the next of the option the input of the step matched
MatchedNext(c) ==
    NormalizeAll(FlowDefs[store[c].flow].nodes[store[c].current].options)[
        matchExact(NormalizeAll(FlowDefs[store[c].flow].nodes[store[c].current].options),
                   out'.input).idx].next

\* "k. text" for the k-th option
Numbered(options) ==
    [k \in 1..Len(options) |-> <<DigitChar[k]>> \o <<".", " ">> \o options[k].text]

\* what C27 asks of a step whose matched option leads to nextId in flow
TransitionAsStated(c, flow, current, nextId) ==
    IF nextId = ""
    THEN /\ store'[c] = NoState
         /\ out'.res.ok /\ out'.res.terminal
         /\ out'.res.prompt = flow.nodes[current].prompt
    ELSE IF nextId \in NodeIds(flow)
            /\ (flow.nodes[nextId].terminal \/ Len(flow.nodes[nextId].options) = 0)
    THEN /\ store'[c] = NoState
         /\ out'.res.ok /\ out'.res.terminal
         /\ out'.res.prompt = flow.nodes[nextId].prompt
    ELSE /\ store'[c] = [flow |-> store[c].flow, current |-> nextId]
         /\ out'.res.ok /\ ~out'.res.terminal
         /\ out'.res.nodeId = nextId
         /\ nextId \in NodeIds(flow)
         /\ out'.res.prompt = flow.nodes[nextId].prompt
         /\ out'.res.options = Numbered(flow.nodes[nextId].options)

\* C27: on an exact match advance deletes the FlowState and answers
\* terminal:true when the matched option has no next (with the current
\* node's prompt) or when the target node is terminal or has no options
\* (with the target's prompt); otherwise it overwrites the FlowState with
\* the same flow and current = option.next and answers terminal:false,
\* nodeId = next and the target's options as a 1-based numbered list
C27_ExactMatchTransitions ==
    [][\A c \in Chats :
          ExactStep(c) =>
              TransitionAsStated(c, FlowDefs[store[c].flow], store[c].current,
                                 MatchedNext(c))]_vars

\* an exact match moved the catalog flow to a node with options
C27_MovedToNextNode ==
    /\ out.op = "advance" /\ out.res.ok /\ ~out.res.terminal
    /\ store[out.chat] = [flow |-> "catalog", current |-> "consertos"]
    /\ out.res.nodeId = "consertos"
    /\ Len(out.res.options) = 3

\* an exact match on an option without next ended the flow
C27_EndedWithoutNext ==
    /\ out.op = "advance" /\ out.key = "nonext"
    /\ out.res.ok /\ out.res.terminal
    /\ store[out.chat] = NoState

-----------------------------------------------------------------------------
(* The fallback phase, pending suggestions and expired locks, under Spec *)

EvInitialMenu == <<"send", "list", "", "initialMenu">>

\* the call is processed (not empty, not locked) in the fallback phase
FallbackCall(c) ==
    /\ Call(c) /\ out'.input # E /\ ~out'.status.locked
    /\ conv[c].phase = "fallback"

\* the input names the wait-for-agent choice
WaitChoice(input) ==
    \/ LowerCase(Trim(input)) = <<"1">>
    \/ Includes(LowerCase(Trim(input)), <<"a","g","u","a","r","d","a","r">>)

\* the input names the back-to-menu choice
BackChoice(input) ==
    \/ LowerCase(Trim(input)) = <<"2">>
    \/ Includes(LowerCase(Trim(input)), <<"v","o","l","t","a","r">>)

\* C28: in the fallback phase (not locked) the input is read against the
\* two fallback choices before the engine is consulted: wait-for-agent ('1'
\* or a text containing 'aguardar') sends the closure and locks the
\* conversation; back-to-menu ('2' or a text containing 'voltar') resets
\* attempts to 0 and the phase to 'initial' and re-sends the initial menu;
\* any other input records another invalid attempt; FlowEngine.advance is
\* never called
C28_FallbackChoices ==
    [][\A c \in SessionChats :
          FallbackCall(c) =>
              /\ out'.ret
              /\ ~EngineCalls(out'.ev)
              /\ store'[c] = store[c]
              /\ WaitChoice(out'.input) =>
                    /\ Before(out'.ev, EvText("fallbackClosure"), EvLock)
                    /\ conv'[c].lockedUntil = now + LOCK_DURATION_MS
              /\ (~WaitChoice(out'.input) /\ BackChoice(out'.input)) =>
                    /\ conv'[c].attempts = 0 /\ conv'[c].phase = "initial"
                    /\ conv'[c].lockedUntil = 0
                    /\ Before(out'.ev, EvText("welcome"), EvInitialMenu)
              /\ (~WaitChoice(out'.input) /\ ~BackChoice(out'.input)) =>
                    /\ Has(out'.ev, EvInvalid)
                    /\ conv'[c].attempts = conv[c].attempts + 1]_vars

\* back-to-menu was chosen in the fallback phase
C28_BackToMenuChosen ==
    /\ out.op = "advanceOrRestart" /\ out.was.phase = "fallback" /\ ~out.status.locked
    /\ out.input = <<"v","o","l","t","a","r">>
    /\ conv[out.chat].attempts = 0 /\ conv[out.chat].phase = "initial"
    /\ Has(out.ev, EvInitialMenu)

\* wait-for-agent was chosen in the fallback phase
C28_WaitForAgentChosen ==
    /\ out.op = "advanceOrRestart" /\ out.was.phase = "fallback" /\ ~out.status.locked
    /\ out.input = <<"1">>
    /\ conv[out.chat].lockedUntil > now

EvConsume == <<"recovery", "consumePendingSuggestion", "", "">>

\* the call is processed (not empty, not locked) while a suggestion is pending
PendingCall(c) ==
    /\ Call(c) /\ out'.input # E /\ ~out'.status.locked
    /\ conv[c].pending # << >>

\* the node the FlowState fs is at has an option with this id
OptionAtNode(fs, id) ==
    /\ storeHas(fs) /\ fs.current \in NodeIds(FlowDefs[fs.flow])
    /\ \E i \in 1..Len(CurrentOptions(fs)) : CurrentOptions(fs)[i].id = id

\* from fs the flow moved along the edge of the option with this id of the
\* node fs is at: fs2 and res are the FlowState and result of that edge
MovedAlongEdge(fs, id, fs2, res) ==
    /\ storeHas(fs) /\ fs.current \in NodeIds(FlowDefs[fs.flow])
    /\ \E i \in 1..Len(CurrentOptions(fs)) :
          /\ CurrentOptions(fs)[i].id = id
          /\ [fs |-> fs2, res |-> res]
                = advanceTo(fs, FlowDefs[fs.flow], fs.current, CurrentOptions(fs)[i].next)

\* the call left what advanceOrRestart leaves with no suggestion pending
AsWithoutPending(c) ==
    /\ ~Has(out'.ev, EvConsume)
    /\ out'.ev = advanceOrRestart([Machine(c) EXCEPT !.cv.pending = << >>],
                                  now, out'.input).ev
    /\ store'[c] = advanceOrRestart([Machine(c) EXCEPT !.cv.pending = << >>],
                                    now, out'.input).fs

\* a no to the pending suggestion: one invalid attempt, the flow not advanced
RejectedStep(c) ==
    /\ Has(out'.ev, EvInvalid)
    /\ conv'[c].attempts = conv[c].attempts + 1
    /\ conv'[c].pending = << >>
    /\ ~EngineCalls(out'.ev)
    /\ store'[c] = store[c]

\* C29 as stated: while a suggestion is pending, an affirmative token
\* consumes it and re-issues advance with the suggested option's id, so the
\* flow moves along exactly that option's edge and the pending slot is empty
\* afterwards; a negative token records one invalid attempt and does not
\* advance the flow; any other input is processed as a normal input
C29_SuggestionProtocol ==
    [][\A c \in SessionChats :
          PendingCall(c) =>
              /\ LowerCase(Trim(out'.input)) \in affirmative =>
                    /\ Has(out'.ev, EvConsume)
                    /\ conv'[c].pending = << >>
                    /\ MovedAlongEdge(store[c], conv[c].pending[1].optionId,
                                      store'[c], out'.res)
              /\ LowerCase(Trim(out'.input)) \in negative => RejectedStep(c)
              /\ LowerCase(Trim(out'.input)) \notin affirmative \cup negative
                    => AsWithoutPending(c)]_vars

\* the part of C29 the code keeps: while a suggestion is pending, an
\* affirmative token consumes it and re-issues advance with the suggested
\* option's id; the pending slot is empty afterwards, and the flow moves
\* along that option's edge if the node the chat is at has the option (the
\* suggestion is taken from the menu flow's node of the same id, so in the
\* catalog flow it names an option the chat's node does not have, and the
\* engine refuses the id as any other input); a negative token records one
\* invalid attempt and does not advance the flow; any other input is
\* processed as a normal input
C29_SuggestionProtocolAtItsNode ==
    [][\A c \in SessionChats :
          PendingCall(c) =>
              /\ LowerCase(Trim(out'.input)) \in affirmative =>
                    /\ Has(out'.ev, EvConsume)
                    /\ conv'[c].pending = << >>
                    /\ out'.res = engineAdvance(store[c], conv[c].pending[1].optionId).res
                    /\ OptionAtNode(store[c], conv[c].pending[1].optionId)
                          => MovedAlongEdge(store[c], conv[c].pending[1].optionId,
                                            store'[c], out'.res)
              /\ LowerCase(Trim(out'.input)) \in negative => RejectedStep(c)
              /\ LowerCase(Trim(out'.input)) \notin affirmative \cup negative
                    => AsWithoutPending(c)]_vars

\* a yes has just confirmed the pending suggestion and the flow moved along
\* the suggested option's edge
C29_ConfirmedAndMoved ==
    /\ out.op = "advanceOrRestart" /\ out.input = <<"s","i","m">>
    /\ Has(out.ev, EvConsume)
    /\ out.res.ok
    /\ conv[out.chat].pending = << >>

\* a no has just rejected the pending suggestion
C29_Rejected ==
    /\ out.op = "advanceOrRestart" /\ out.input = <<"n","a","o">>
    /\ Has(out.ev, EvInvalid) /\ ~EngineCalls(out.ev)
    /\ out.was.attempts + 1 = conv[out.chat].attempts

\* a yes has just confirmed a suggestion that names no option of the node
\* the chat is at: the engine refused the suggested id
C29_ConfirmedButRefused ==
    /\ out.op = "advanceOrRestart" /\ out.input = <<"s","i","m">>
    /\ Has(out.ev, EvConsume)
    /\ out.res.error = "input_invalido"
    /\ store[out.chat] = FlowState("catalog", "inicio")

\* the call is the first input after a lock of the escalation ladder has
\* passed: lockedUntil is set and not in the future, and the phase is the
\* fallback phase both ladder locks are imposed in (a lock-on-complete lock
\* follows recordValidSelection, which leaves the phase 'initial')
ExpiredLadderLock(c) ==
    /\ Call(c) /\ out'.input # E
    /\ conv[c].lockedUntil # 0 /\ conv[c].lockedUntil <= now
    /\ conv[c].phase = "fallback"

\* the chat's state as a handler finds it once the ladder is reset
FreshMachine(c) ==
    [Machine(c) EXCEPT !.cv = recordValidSelection(@, now)]

\* C30 as stated: once the lockedUntil of a lock imposed by the escalation
\* ladder has passed, the next input to advanceOrRestart is handled as a
\* fresh interaction (menu start or normal selection, ladder counted from
\* zero) and does not lock the conversation again on its own
C30_ExpiredLockStartsFresh ==
    [][\A c \in SessionChats :
          ExpiredLadderLock(c) =>
              /\ ~out'.status.locked
              /\ conv'[c].attempts <= 1
              /\ store'[c] = advanceOrRestart(FreshMachine(c), now, out'.input).fs
              /\ conv'[c].lockedUntil
                    = advanceOrRestart(FreshMachine(c), now, out'.input).cv.lockedUntil]_vars

\* the part of C30 the code keeps: the expired lock itself is lifted (the
\* call is not suppressed and the unlock is recorded), and the input is
\* read in the fallback phase the ladder was left in
C30_ExpiredLockLiftedInFallback ==
    [][\A c \in SessionChats :
          ExpiredLadderLock(c) =>
              /\ ~out'.status.locked
              /\ out'.ev # << >> /\ out'.ev[1] = <<"recovery", "unlock", "", "">>
              /\ ~EngineCalls(out'.ev)
              /\ (~WaitChoice(out'.input) /\ BackChoice(out'.input))
                    <=> conv'[c].lockedUntil = 0]_vars

\* the first input after the ladder's lock passed was counted as a fourth
\* invalid attempt and the conversation is locked again
C30_LockedAgainAtOnce ==
    /\ out.op = "advanceOrRestart" /\ ~out.status.locked
    /\ out.was.attempts = 3 /\ out.was.phase = "fallback"
    /\ Has(out.ev, <<"recovery", "unlock", "", "">>)
    /\ conv[out.chat].attempts = 4
    /\ conv[out.chat].lockedUntil = now + LOCK_DURATION_MS

\* the first input after the ladder's lock passed was the menu choice '1':
\* it was read as wait-for-agent and the conversation is locked again
C30_SelectionReadAsWaitForAgent ==
    /\ out.op = "advanceOrRestart" /\ ~out.status.locked
    /\ out.input = <<"1">>
    /\ Has(out.ev, <<"recovery", "unlock", "", "">>)
    /\ Has(out.ev, EvText("fallbackClosure"))
    /\ conv[out.chat].lockedUntil = now + LOCK_DURATION_MS

\* C32: under sequential advanceOrRestart calls for a chat, a pending
\* suggestion never coexists with the fallback phase or with an active lock:
\* in every reachable state, a pending suggestion implies attempts <= 1,
\* phase 'initial' and no unexpired lockedUntil
C32_PendingOnlyInInitialPhase ==
    \A c \in SessionChats :
        conv[c].pending # << >> =>
            /\ conv[c].attempts <= 1
            /\ conv[c].phase = "initial"
            /\ ~(conv[c].lockedUntil > now)

\* a suggestion is pending after one invalid attempt was counted
C32_PendingAfterOneAttempt ==
    \E c \in SessionChats :
        /\ out.op = "advanceOrRestart" /\ out.chat = c
        /\ Has(out.ev, EvText("suggestionPrompt"))
        /\ conv[c].pending # << >>
        /\ conv[c].attempts = 1

\* C33 as stated: in the reject-suggestion path (a negative reply while a
\* suggestion is pending) the attempt is still counted (attempts + 1) and the
\* pending suggestion is preserved instead of cleared; in every other call
\* recordInvalidAttempt clears the pending suggestion
C33_RejectPreservesSuggestion ==
    [][\A c \in SessionChats :
          (Call(c) /\ Has(out'.ev, EvInvalid)) =>
              /\ conv'[c].attempts = conv[c].attempts + 1
              /\ IF PendingCall(c) /\ LowerCase(Trim(out'.input)) \in negative
                 THEN conv'[c].pending = conv[c].pending
                 ELSE conv'[c].pending = << >>]_vars

\* the part of C33 the code keeps: every recordInvalidAttempt counts the
\* attempt and clears the pending suggestion, also in the reject-suggestion
\* path
C33_EveryInvalidAttemptClearsSuggestion ==
    [][\A c \in SessionChats :
          (Call(c) /\ Has(out'.ev, EvInvalid)) =>
              /\ conv'[c].attempts = conv[c].attempts + 1
              /\ conv'[c].pending = << >>]_vars

\* a no has just rejected the pending suggestion, and the suggestion is gone
C33_RejectedAndCleared ==
    \E c \in SessionChats :
        /\ out.op = "advanceOrRestart" /\ out.chat = c
        /\ out.input = <<"n","a","o">>
        /\ Has(out.ev, EvInvalid) /\ ~EngineCalls(out.ev)
        /\ conv[c].attempts = out.was.attempts + 1
        /\ conv[c].pending = << >>

\* the engine has just refused the input of the call for chat c
Refused(c) == Call(c) /\ out'.res.error = "input_invalido"

\* the call stored a suggestion
Suggested(c) == Has(out'.ev, <<"recovery", "setPendingSuggestion", "", "">>)

\* C35 as stated: suggestions and the escalation ladder are applied only to
\* the node the conversation is actually at: on 'input_invalido' the node is
\* treated as menu-type only when the chat's active flow is the menu flow,
\* and every suggested option belongs to the chat's current node, also when
\* the menu and catalog flows contain nodes with the same id, so that
\* confirming a suggestion never yields 'input_invalido'
C35_SuggestionsOfTheCurrentNode ==
    [][\A c \in SessionChats :
          /\ (Refused(c) /\ store[c].flow # "menu")
                => /\ ~Suggested(c) /\ ~Has(out'.ev, EvInvalid)
                   /\ Has(out'.ev, EvText("invalidOptionText"))
          /\ (Call(c) /\ Suggested(c))
                => OptionAtNode(store'[c], conv'[c].pending[1].optionId)
          /\ (PendingCall(c) /\ LowerCase(Trim(out'.input)) \in affirmative)
                => out'.res.error # "input_invalido"]_vars

\* the part of C35 the code keeps: on 'input_invalido' the node is looked up
\* by its id alone, in the menu flow first: the ladder and the suggestions,
\* taken from the MENU node of that id, are applied whenever the id is one of
\* the menu flow's, whatever flow the chat is in; the plain invalid-option
\* text is sent otherwise
C35_NodeLookedUpByIdMenuFirst ==
    [][\A c \in SessionChats :
          Refused(c) =>
              IF out'.res.nodeId \in NodeIds(menuFlow)
              THEN /\ Suggested(c) \/ Has(out'.ev, EvInvalid)
                   /\ Suggested(c) =>
                         \E i \in 1..Len(menuFlow.nodes[out'.res.nodeId].options) :
                            menuFlow.nodes[out'.res.nodeId].options[i].id
                               = conv'[c].pending[1].optionId
              ELSE /\ ~Suggested(c) /\ ~Has(out'.ev, EvInvalid)
                   /\ Has(out'.ev, EvText("invalidOptionText"))]_vars

\* a chat in the catalog flow has just been offered an option of the menu
\* flow's node of the same id
C35_MenuOptionSuggestedInCatalog ==
    \E c \in SessionChats :
        /\ out.op = "advanceOrRestart" /\ out.chat = c
        /\ store[c] = FlowState("catalog", "inicio")
        /\ Has(out.ev, <<"recovery", "setPendingSuggestion", "", "">>)
        /\ conv[c].pending # << >>
        /\ ~OptionAtNode(store[c], conv[c].pending[1].optionId)

\* a chat in the catalog flow has just had an invalid attempt counted
C35_LadderAppliedInCatalog ==
    \E c \in SessionChats :
        /\ out.op = "advanceOrRestart" /\ out.chat = c
        /\ out.input = <<"z","z">>
        /\ store[c] = FlowState("catalog", "inicio")
        /\ out.res.error = "input_invalido"
        /\ Has(out.ev, EvInvalid)

\* in the catalog flow, at a node whose id the menu flow does not have, the
\* plain invalid-option text has just been sent
C35_PlainTextAtCatalogOnlyNode ==
    \E c \in SessionChats :
        /\ out.op = "advanceOrRestart" /\ out.chat = c
        /\ store[c].flow = "catalog" /\ store[c].current \notin NodeIds(menuFlow)
        /\ out.res.error = "input_invalido"
        /\ Has(out.ev, EvText("invalidOptionText"))

-----------------------------------------------------------------------------
(* MessageRouter.route: the chain command -> flow -> discard *)

CmdMenu == <<"!","m","e","n","u">>

CmdLista == <<"!","l","i","s","t","a">>

CmdFluxo == <<"!","f","l","u","x","o">>

CmdShutdown == <<"!","s","h","u","t","d","o","w","n">>

CmdUnknown == <<"!","x">>

\* normalizedBody.startsWith('!')
startsWithBang(body) == Len(body) > 0 /\ body[1] = "!"

EvCall(what) == <<"call", what, "", "">>

\* commandRegistry.run(command, message, {isOwner: FALSE, fromSelf}): no handler
\* answers false; the owner's commands answer false to anyone else; '!menu',
\* '!lista' and '!fluxo' answer false to the bot's own messages
commandRegistryRun(m, t, command, fromSelf) ==
    IF command \in {CmdMenu, CmdLista}
    THEN IF fromSelf THEN Returning(m, FALSE) ELSE commandStart(m, t, "menu")
    ELSE IF command = CmdFluxo
    THEN IF fromSelf THEN Returning(m, FALSE) ELSE commandStart(m, t, "catalog")
    ELSE Returning(m, FALSE)

\* DiscardMessageHandler.handle
discardHandle(m) == Returning(m, FALSE)

\* FlowMessageHandler.handle: empty bodies and commands go down the chain
flowHandle(m, t, body) ==
    IF body = E \/ startsWithBang(body) THEN discardHandle(m)
    ELSE advanceOrRestart(Emit(m, "call", "advanceOrRestart", "", ""), t, body)

\* what follows commandRegistry.run in CommandMessageHandler.handle
afterCommandRun(m, t, body) == IF m.ret THEN m ELSE flowHandle(m, t, body)

\* CommandMessageHandler.handle, the head of the chain
commandHandle(m, t, body, fromSelf) ==
    IF ~startsWithBang(body) THEN flowHandle(m, t, body)
    ELSE afterCommandRun(commandRegistryRun(Emit(m, "call", "commandRegistry.run", "", ""),
                                            t, body, fromSelf),
                         t, body)

\* MessageRouter.route(message)
route(m, t, body, fromSelf) == commandHandle(m, t, body, fromSelf)

\* the normalized bodies routed: plain text and commands
RouterBodies ==
    { E, <<"1">>, <<"2">>, <<"z","z">>, <<"v","o","l","t","a","r">>,
      CmdMenu, CmdLista, CmdFluxo, CmdShutdown, CmdUnknown }

\* a command that started a flow begins a new run of inputs
RouteRun(m, t, body, handled, run) ==
    IF startsWithBang(body) THEN (IF handled THEN 0 ELSE run)
    ELSE NextRun(m, t, body, run)

\* MessageRouter.route for a message of chat c that is not the owner's
Route(c, body, fromSelf) ==
    \E m \in {route(Machine(c), now, body, fromSelf)} :
    \E ls \in {getLockStatus(conv[c], now)} :
        /\ store' = [store EXCEPT ![c] = m.fs]
        /\ conv' = [conv EXCEPT ![c] = m.cv]
        /\ tracker' = [tracker EXCEPT ![c] = m.tr]
        /\ invalidRun' = [invalidRun EXCEPT ![c] = RouteRun(Machine(c), now, body, m.ret, @)]
        /\ out' = Out("route", c, body, "", m.ret, m.res, m.ev,
                      [locked |-> ls.locked, remainingMs |-> ls.remainingMs,
                       lockedUntil |-> ls.lockedUntil],
                      [attempts |-> conv[c].attempts, phase |-> conv[c].phase])
        /\ UNCHANGED now
        /\ UNCHANGED auxVars

NextRouter ==
    \/ \E c \in SessionChats, body \in RouterBodies, fromSelf \in BOOLEAN :
           Route(c, body, fromSelf)
    \/ Tick

SpecRouter == Init /\ [][NextRouter]_vars

\* the routed message found the conversation locked
RoutedWhileLocked == out.op = "route" /\ out.status.locked

\* C21: when the conversation is locked, MessageRouter.route ignores the
\* message entirely, plain text and '!' commands alike: the command registry
\* is not run, advanceOrRestart is not called, nothing is sent and no state
\* of the chat changes
C21_LockedMessageIgnored ==
    [][(out'.op = "route" /\ out'.status.locked)
          => /\ out'.ev = << >>
             /\ store' = store
             /\ tracker' = tracker]_vars

\* the parts of C21 the code keeps: a locked plain text sends nothing and
\* leaves the flow state and the prompt tracker alone
C21_LockedPlainTextSendsNothing ==
    [][(out'.op = "route" /\ out'.status.locked /\ ~startsWithBang(out'.input))
          => /\ \A i \in 1..Len(out'.ev) : out'.ev[i][1] = "call"
             /\ store' = store
             /\ tracker' = tracker]_vars

\* a '!menu' routed for a locked conversation started the flow and sent its prompt
C21_LockedCommandStartedFlow ==
    /\ RoutedWhileLocked
    /\ out.input = CmdMenu
    /\ \E i \in 1..Len(out.ev) : out.ev[i] = EvCall("commandRegistry.run")
    /\ \E i \in 1..Len(out.ev) : out.ev[i][1] = "send"

-----------------------------------------------------------------------------
(* validateOptionFlow over a family of definitions, and FlowEngine.start of them *)

GenNodeIds == {"a", "b", "c"}

\* what an option's next may be: none, a node id, an id no definition has
GenTargets == {""} \cup GenNodeIds \cup {"z"}

\* the shapes of a node: terminal or not, a blank prompt or not, its options' nexts
GenShapes ==
    { [terminal |-> TRUE,  blank |-> FALSE, nexts |-> << >>],
      [terminal |-> TRUE,  blank |-> TRUE,  nexts |-> << >>],
      [terminal |-> TRUE,  blank |-> FALSE, nexts |-> <<"">>],
      [terminal |-> FALSE, blank |-> TRUE,  nexts |-> <<"">>],
      [terminal |-> FALSE, blank |-> FALSE, nexts |-> << >>] }
    \cup { [terminal |-> FALSE, blank |-> FALSE, nexts |-> <<t>>] : t \in GenTargets }
    \cup { [terminal |-> FALSE, blank |-> FALSE, nexts |-> <<t, u>>] :
             t \in GenNodeIds, u \in GenNodeIds }

\* the node of a shape: option k has id k and text Tk
GenNode(shape) ==
    Node("text", IF shape.blank THEN <<" ">> ELSE <<"P">>, shape.terminal,
         [k \in 1..Len(shape.nexts) |->
             Opt(<<DigitChar[k]>>, <<"T", DigitChar[k]>>, << >>, shape.nexts[k])],
         FALSE)

\* definitions over the node sets {a}, {a, b} and {a, b, c}, with a start
\* that is a node, is none, or is missing
GenFlows ==
    { [start |-> s, nodes |-> [id \in DOMAIN f |-> GenNode(f[id])]] :
        s \in {"a", "b", "z", ""},
        f \in UNION { [ids -> GenShapes] : ids \in {{"a"}, {"a", "b"}, GenNodeIds} } }

InitValidator ==
    /\ store = [c \in Chats |-> NoState]
    /\ conv = [c \in Chats |-> NoConv]
    /\ tracker = [c \in Chats |-> NoEntry]
    /\ now = 0
    /\ out = Out("init", "", E, "", FALSE, NoResult, << >>, NoStatus, NoAttempts)
    /\ invalidRun = [c \in Chats |-> 0]
    /\ built = << >>
    /\ lastMatch = NotMatched
    /\ serviceOptions = DefaultOptions
    /\ rate = newRateController(FALSE)
    /\ sends = [p \in Callers |-> IdleSend]
    /\ gatedSinceRefill = 0
    /\ calls = [h \in Handlers |-> IdleCall]
    /\ flowDef \in GenFlows
    /\ report = NoReport
    /\ InitLater

\* validateOptionFlow(flowDef)
Validate ==
    /\ report' = validateOptionFlow(flowDef)
    /\ out' = Out("validate", "", E, "", FALSE, NoResult, << >>, NoStatus, NoAttempts)
    /\ UNCHANGED <<store, conv, tracker, now, invalidRun, flowDef>>
    /\ UNCHANGED <<matcherVars, serviceOptions, rateVars, calls, laterVars>>

\* FlowEngine.start(c, flowDef)
StartFlowDef(c) ==
    \E r \in {engineStartFlow(store[c], "generated", flowDef)} :
        /\ store' = [store EXCEPT ![c] = r.fs]
        /\ out' = Out("start", c, E, "generated", r.res.ok, r.res, << >>, NoStatus, NoAttempts)
        /\ UNCHANGED <<conv, tracker, now, invalidRun, validatorVars>>
        /\ UNCHANGED <<matcherVars, serviceOptions, rateVars, calls, laterVars>>

NextValidator ==
    \/ Validate
    \/ \E c \in SessionChats : StartFlowDef(c)

SpecValidator == InitValidator /\ [][NextValidator]_vars

\* the node ids some option of the node names as next
Successors(flow, id) ==
    {flow.nodes[id].options[k].next : k \in 1..Len(flow.nodes[id].options)} \ {""}

StartMissing(flow) == flow.start \notin NodeIds(flow)

DanglingNext(flow) == \E id \in NodeIds(flow) : ~(Successors(flow, id) \subseteq NodeIds(flow))

SomeUnreachable(flow) == Reachable(flow) # NodeIds(flow)

\* some node reachable from start leads back to itself
HasCycle(flow) ==
    \E id \in Reachable(flow) :
        \E n \in Successors(flow, id) \cap NodeIds(flow) : id \in ReachFrom(flow, {n})

TerminalWithOptions(flow) ==
    \E id \in NodeIds(flow) : flow.nodes[id].terminal /\ Len(flow.nodes[id].options) > 0

NonTerminalWithoutPrompt(flow) ==
    \E id \in NodeIds(flow) : ~flow.nodes[id].terminal /\ Trim(flow.nodes[id].prompt) = E

NonTerminalWithoutOptions(flow) ==
    \E id \in NodeIds(flow) : ~flow.nodes[id].terminal /\ Len(flow.nodes[id].options) = 0

\* nothing is irregular in the definition, cycles aside
RegularButForCycles(flow) ==
    /\ ~StartMissing(flow) /\ ~DanglingNext(flow) /\ ~SomeUnreachable(flow)
    /\ ~TerminalWithOptions(flow) /\ ~NonTerminalWithoutPrompt(flow)
    /\ \A id \in NodeIds(flow) : validateAnswerOptions(flow.nodes[id].options)

Validated == out.op = "validate"

\* C22: validateOptionFlow answers ok:false with an error whenever the start
\* node is missing, some next names a node that does not exist or some node
\* is unreachable from start; a cycle is never an error: a definition whose
\* only irregularity is a cycle reachable from start gets ok:true and the
\* cycle warning; stats.reachable is the number of nodes reachable from start
C22_GraphVerdict ==
    Validated =>
        /\ (StartMissing(flowDef) \/ DanglingNext(flowDef) \/ SomeUnreachable(flowDef))
              => (~report.ok /\ report.errors # {})
        /\ RegularButForCycles(flowDef) => report.ok
        /\ (flowDef.start # "" /\ HasCycle(flowDef)) => report.warnings # {}
        /\ flowDef.start # "" => report.reachable = Cardinality(Reachable(flowDef))

\* a definition whose only irregularity is a cycle was validated: ok, with the warning
C22_CycleOnlyValidated ==
    /\ Validated
    /\ HasCycle(flowDef) /\ RegularButForCycles(flowDef)
    /\ report.ok /\ report.warnings # {}
    /\ report.reachable = 3

\* a definition with an unreachable node was validated
C22_UnreachableRejected ==
    /\ Validated
    /\ ~StartMissing(flowDef) /\ ~DanglingNext(flowDef) /\ SomeUnreachable(flowDef)
    /\ ~report.ok

\* C23 as stated: validateOptionFlow answers ok:false for every definition
\* with a terminal node that has options, a non-terminal node without a
\* non-empty prompt or a non-terminal node with zero options, and
\* FlowEngine.start never stores a FlowState for such a definition
C23_NodeInvariants ==
    /\ Validated =>
          ((TerminalWithOptions(flowDef) \/ NonTerminalWithoutPrompt(flowDef)
              \/ NonTerminalWithoutOptions(flowDef)) => ~report.ok)
    /\ \A c \in Chats :
          storeHas(store[c]) =>
              ~(TerminalWithOptions(flowDef) \/ NonTerminalWithoutPrompt(flowDef)
                  \/ NonTerminalWithoutOptions(flowDef))

\* C23, amended: validateOptionFlow answers ok:false for every definition
\* with a terminal node that has options or a non-terminal node without a
\* non-empty prompt, and FlowEngine.start never stores a FlowState for such
\* a definition; a non-terminal node with zero options is not an error
C23_TerminalAndPromptInvariants ==
    /\ Validated =>
          ((TerminalWithOptions(flowDef) \/ NonTerminalWithoutPrompt(flowDef)) => ~report.ok)
    /\ \A c \in Chats :
          storeHas(store[c]) =>
              ~(TerminalWithOptions(flowDef) \/ NonTerminalWithoutPrompt(flowDef))

\* start was refused for a definition with a terminal node that has options
C23_StartRefused ==
    /\ out.op = "start" /\ ~out.ret
    /\ TerminalWithOptions(flowDef)
    /\ ~StartMissing(flowDef) /\ ~DanglingNext(flowDef) /\ ~SomeUnreachable(flowDef)
    /\ ~NonTerminalWithoutPrompt(flowDef)
    /\ store[out.chat] = NoState

\* a definition whose start node is non-terminal and has no options was entered
C23_OptionlessEntered ==
    /\ out.op = "start" /\ out.ret
    /\ NonTerminalWithoutOptions(flowDef)
    /\ storeHas(store[out.chat])

-----------------------------------------------------------------------------
(* commandRegistry.js: the owner's '!shutdown' and '!restart' *)

AdminCommands == {"shutdown", "restart"}

\* the handler up to its first await: not the owner's, refused while one is
\* in progress, else the flag is set and the notice (or, for the bot's own
\* message, gracefulShutdown / gracefulRestart) is awaited
adminBegin(inFlag, command, isOwner, fromSelf, noticeFails) ==
    IF ~isOwner
    THEN [IdleAdmin EXCEPT !.command = command, !.fromSelf = fromSelf, !.result = "false"]
    ELSE IF inFlag
    THEN [IdleAdmin EXCEPT !.command = command, !.fromSelf = fromSelf,
                           !.warned = TRUE, !.result = "true"]
    ELSE IF ~fromSelf
    THEN [IdleAdmin EXCEPT !.command = command, !.fromSelf = fromSelf,
                           !.noticeFails = noticeFails, !.pc = "notice"]
    ELSE [IdleAdmin EXCEPT !.command = command, !.fromSelf = fromSelf,
                           !.pc = "graceful", !.ran = TRUE]

\* faulty variant of flagAfterBegin: the flag is never set
flagNeverSet(inFlag, isOwner) == inFlag

\* the flag after the handler's first part
flagAfterBegin(inFlag, isOwner) == IF isOwner THEN TRUE ELSE inFlag

\* faulty variant of adminAfterNotice: a failed notice rejects the command
adminAfterNoticePropagates(call) ==
    IF call.noticeFails
    THEN [call EXCEPT !.pc = "idle", !.result = "rejected"]
    ELSE [call EXCEPT !.pc = "graceful", !.ran = TRUE, !.noticeSent = TRUE]

\* the notice settled: a rejection is logged and swallowed, then
\* gracefulShutdown / gracefulRestart is called
adminAfterNotice(call) ==
    [call EXCEPT !.pc = "graceful", !.ran = TRUE,
                 !.noticeSent = ~call.noticeFails, !.warned = call.noticeFails]

\* faulty variant of flagAfterGraceful: a throw leaves the flag set
flagKeptOnThrow(throws) == throws

\* finally: the flag is cleared, whether gracefulShutdown threw or not
flagAfterGraceful(throws) == FALSE

\* gracefulShutdown / gracefulRestart settled
adminAfterGraceful(call, throws) ==
    [call EXCEPT !.pc = "idle", !.result = IF throws THEN "rejected" ELSE "true"]

\* commandRegistry.run('!shutdown' | '!restart', message, {isOwner, fromSelf})
AdminRun(p, command, isOwner, fromSelf, noticeFails) ==
    /\ adminCalls[p].pc = "idle"
    /\ adminCalls' = [adminCalls EXCEPT
                         ![p] = adminBegin(inProgress[command], command, isOwner,
                                           fromSelf, noticeFails)]
    /\ inProgress' = [inProgress EXCEPT ![command] = flagAfterBegin(@, isOwner)]
    /\ UNCHANGED <<store, conv, tracker, now, out, invalidRun, matcherVars,
                   serviceOptions, rateVars, calls, validatorVars, finalVars, failure, ttlMap>>

\* await sendSafe(message.from, notice) settles
AdminNoticeSettles(p) ==
    /\ adminCalls[p].pc = "notice"
    /\ adminCalls' = [adminCalls EXCEPT ![p] = adminAfterNotice(@)]
    /\ inProgress' = [inProgress EXCEPT
                         ![adminCalls[p].command] =
                             IF adminAfterNotice(adminCalls[p]).pc = "idle"
                             THEN flagAfterGraceful(TRUE) ELSE @]
    /\ UNCHANGED <<store, conv, tracker, now, out, invalidRun, matcherVars,
                   serviceOptions, rateVars, calls, validatorVars, finalVars, failure, ttlMap>>

\* await gracefulShutdown(...) / gracefulRestart() settles
AdminGracefulSettles(p, throws) ==
    /\ adminCalls[p].pc = "graceful"
    /\ adminCalls' = [adminCalls EXCEPT ![p] = adminAfterGraceful(@, throws)]
    /\ inProgress' = [inProgress EXCEPT ![adminCalls[p].command] = flagAfterGraceful(throws)]
    /\ UNCHANGED <<store, conv, tracker, now, out, invalidRun, matcherVars,
                   serviceOptions, rateVars, calls, validatorVars, finalVars, failure, ttlMap>>

NextAdmin ==
    \/ \E p \in Owners, command \in AdminCommands :
       \E isOwner \in BOOLEAN, fromSelf \in BOOLEAN, noticeFails \in BOOLEAN :
           AdminRun(p, command, isOwner, fromSelf, noticeFails)
    \/ \E p \in Owners : AdminNoticeSettles(p)
    \/ \E p \in Owners, throws \in BOOLEAN : AdminGracefulSettles(p, throws)

SpecAdmin == Init /\ [][NextAdmin]_vars

\* the calls of a command that hold its flag: awaiting the notice or the
\* graceful function
Holding(command) ==
    {p \in Owners : adminCalls[p].command = command
                    /\ adminCalls[p].pc \in {"notice", "graceful"}}

\* the owner's command began while the same command was in progress
IgnoredStep(p) ==
    /\ adminCalls[p].pc = "idle"
    /\ adminCalls'[p] # adminCalls[p]
    /\ adminCalls'[p].result # "false"
    /\ inProgress[adminCalls'[p].command]

\* gracefulShutdown / gracefulRestart of call p settled in this step
SettledStep(p) == adminCalls[p].pc = "graceful" /\ adminCalls'[p].pc = "idle"

\* C26: at most one gracefulShutdown (resp. gracefulRestart) is in progress
\* at any time; an owner's command that arrives while one is running is
\* ignored: no notice, no second call, it returns true; the in-progress
\* flag is cleared when the running one finishes, also when it throws
C26_OneGracefulAtATime ==
    /\ [](\A command \in AdminCommands :
             /\ Cardinality(Holding(command)) <= 1
             /\ inProgress[command] <=> Holding(command) # {})
    /\ [][\A p \in Owners :
             /\ IgnoredStep(p) =>
                   /\ adminCalls'[p].pc = "idle" /\ adminCalls'[p].result = "true"
                   /\ ~adminCalls'[p].ran /\ ~adminCalls'[p].noticeSent
                   /\ inProgress' = inProgress
             /\ SettledStep(p) => ~inProgress'[adminCalls[p].command]]_vars

\* a second '!shutdown' was ignored while the first awaits gracefulShutdown
C26_SecondShutdownIgnored ==
    /\ adminCalls["o1"].command = "shutdown" /\ adminCalls["o1"].pc = "graceful"
    /\ adminCalls["o2"].command = "shutdown" /\ adminCalls["o2"].pc = "idle"
    /\ adminCalls["o2"].warned /\ adminCalls["o2"].result = "true"
    /\ ~adminCalls["o2"].ran

\* gracefulRestart threw and the flag is clear again
C26_FlagClearedAfterThrow ==
    /\ adminCalls["o1"].command = "restart" /\ adminCalls["o1"].result = "rejected"
    /\ ~inProgress["restart"]

-----------------------------------------------------------------------------
(* Rejections of sendSafe: FlowSessionService awaits every send uncaught *)

\* which send of a call is set to reject
FailingSends == 1..4

\* the calls with a rejecting sendSafe stop once the chat counts this many
\* attempts (a rejected closing text leaves the count growing)
MaxAttempts == 4

\* the chat's state as a handler finds it, with its sends tracked
TrackedMachine(c) == [Machine(c) EXCEPT !.track = TRUE]

\* faulty variant of rejectsAt: the rejection is swallowed inside the service
rejectsAtSwallowed(m, k) == FALSE

\* the call rejects when its k-th send does: nothing between sendSafe and
\* the caller of advanceOrRestart catches (m ran with every send resolving)
rejectsAt(m, k) == Len(m.snaps) >= k

\* what the call leaves behind: the state its k-th send found, or its end
leftBy(m, k) ==
    IF rejectsAt(m, k)
    THEN [fs |-> m.snaps[k].fs, cv |-> m.snaps[k].cv, tr |-> m.snaps[k].tr,
          ev |-> m.snaps[k].ev, ret |-> FALSE, res |-> NoResult]
    ELSE [fs |-> m.fs, cv |-> m.cv, tr |-> m.tr, ev |-> m.ev, ret |-> m.ret, res |-> m.res]

\* the sends among the effects
SendCount(ev) == Cardinality({i \in 1..Len(ev) : ev[i][1] = "send"})

\* advanceOrRestart({chatId: c, input, sendSafe, ...}) with a sendSafe whose
\* k-th call rejects
AdvanceOrRestartRejecting(c, input, k) ==
    /\ conv[c].attempts < MaxAttempts
    /\ \E m \in {advanceOrRestart(TrackedMachine(c), now, input)} :
       \E ls \in {getLockStatus(conv[c], now)} :
           /\ store' = [store EXCEPT ![c] = leftBy(m, k).fs]
           /\ conv' = [conv EXCEPT ![c] = leftBy(m, k).cv]
           /\ tracker' = [tracker EXCEPT ![c] = leftBy(m, k).tr]
           /\ invalidRun' = [invalidRun EXCEPT ![c] = NextRun(Machine(c), now, input, @)]
           /\ out' = Out("advanceOrRestart", c, input, "", leftBy(m, k).ret, leftBy(m, k).res,
                         leftBy(m, k).ev,
                         [locked |-> ls.locked, remainingMs |-> ls.remainingMs,
                          lockedUntil |-> ls.lockedUntil],
                         [attempts |-> conv[c].attempts, phase |-> conv[c].phase])
           /\ failure' = [failAt |-> k, rejected |-> rejectsAt(m, k), sends |-> Len(m.snaps)]
           /\ UNCHANGED <<now, matcherVars, serviceOptions, rateVars, calls, validatorVars,
                          finalVars, inProgress, adminCalls, ttlMap>>

\* the bodies handed to advanceOrRestart here
TransportInputs == { <<"1">>, <<"4">>, <<"z","z">>, <<"v","o","l","t","a","r">> }

TransportOwners == {"o1"}

NextTransport ==
    \/ \E c \in SessionChats, input \in TransportInputs, k \in FailingSends :
           AdvanceOrRestartRejecting(c, input, k)
    \/ \E p \in TransportOwners, command \in AdminCommands :
       \E fromSelf \in BOOLEAN, noticeFails \in BOOLEAN :
           AdminRun(p, command, TRUE, fromSelf, noticeFails)
    \/ \E p \in TransportOwners : AdminNoticeSettles(p)
    \/ \E p \in TransportOwners, throws \in BOOLEAN : AdminGracefulSettles(p, throws)

SpecTransport == Init /\ [][NextTransport]_vars

\* C24: a rejection of sendSafe is swallowed only where the owner is
\* notified: an owner's '!shutdown' / '!restart' whose notice fails still
\* runs gracefulShutdown / gracefulRestart and returns true, whereas
\* advanceOrRestart rejects when a send it awaits rejects, and does nothing
\* after that send
C24_SwallowedOnlyAtAdminNotice ==
    /\ \A p \in Owners :
          /\ (adminCalls[p].noticeFails /\ adminCalls[p].pc = "idle")
                => (adminCalls[p].ran /\ adminCalls[p].warned
                    /\ adminCalls[p].result \in {"true", "rejected"})
          /\ adminCalls[p].result = "rejected" => adminCalls[p].ran
    /\ (out.op = "advanceOrRestart" /\ failure.failAt > 0
          /\ failure.sends >= failure.failAt)
          => /\ failure.rejected
             /\ ~out.ret
             /\ SendCount(out.ev) = failure.failAt - 1

\* the closing text after a third invalid input rejected: the call
\* rejected and the conversation was not locked
C24_ClosureRejected ==
    /\ out.op = "advanceOrRestart" /\ failure.rejected /\ failure.failAt = 1
    /\ out.was.attempts = 2
    /\ conv[out.chat].attempts = 3
    /\ conv[out.chat].lockedUntil = 0

\* the notice of '!shutdown' failed, gracefulShutdown ran and the command
\* returned true
C24_ShutdownRanAfterFailedNotice ==
    /\ adminCalls["o1"].command = "shutdown" /\ adminCalls["o1"].noticeFails
    /\ adminCalls["o1"].pc = "idle" /\ adminCalls["o1"].ran
    /\ adminCalls["o1"].result = "true"

-----------------------------------------------------------------------------
(* MemoryStore with its expiry timers, under the flow engine *)

\* this.ttlSec (FLOW_TTL_SECONDS, 30 minutes by default), in ticks
FLOW_TTL_SECONDS == 2

\* MemoryStore.set: the pending timer is cleared and a new one is armed
memorySetTimer(t) == [armed |-> TRUE, at |-> t + FLOW_TTL_SECONDS]

\* faulty variant of memoryClearTimer: the timer stays armed
memoryClearKeepsTimer(timer) == timer

\* MemoryStore.clear: clearTimeout(ttlMap.get(chatId)), ttlMap.delete(chatId);
\* clearTimeout(undefined) does nothing
memoryClearTimer(timer) == NoTimer

\* the timer after an engine call that answered res: start and a
\* non-terminal advance call store.set, a terminal advance and the
\* integrity errors call store.clear, the other errors leave the store alone
timerAfter(timer, res, t) ==
    IF res.ok /\ ~res.terminal THEN memorySetTimer(t)
    ELSE IF res.ok \/ res.error \in {"no_node", "next_inexistente"}
    THEN memoryClearTimer(timer)
    ELSE timer

\* what an operation returned to its caller
Returned(op, c, value) == [op |-> op, chat |-> c, value |-> value]

\* the timer of the chat's ttlMap entry, as the set clearTimeout is given
\* (clearTimeout(undefined) clears nothing)
timerOf(c, timer) == IF timer.armed THEN {[chat |-> c, at |-> timer.at]} ELSE {}

\* faulty variant of timeoutsAfterSet: the previous timer is left running
timeoutsAfterSetKeepsOld(ts, c, timer, t) ==
    ts \cup {[chat |-> c, at |-> t + FLOW_TTL_SECONDS]}

\* MemoryStore.set: clearTimeout of the chat's timer, setTimeout of a new one
timeoutsAfterSet(ts, c, timer, t) ==
    (ts \ timerOf(c, timer)) \cup {[chat |-> c, at |-> t + FLOW_TTL_SECONDS]}

\* MemoryStore.clear: clearTimeout of the chat's timer
timeoutsAfterClear(ts, c, timer) == ts \ timerOf(c, timer)

\* the pending timers after an engine call that answered res (see timerAfter)
timeoutsAfter(ts, c, timer, res, t) ==
    IF res.ok /\ ~res.terminal THEN timeoutsAfterSet(ts, c, timer, t)
    ELSE IF res.ok \/ res.error \in {"no_node", "next_inexistente"}
    THEN timeoutsAfterClear(ts, c, timer)
    ELSE ts

\* what an operation on the MemoryStore leaves alone
MemoryFrame ==
    UNCHANGED <<conv, tracker, invalidRun, matcherVars, serviceOptions, rateVars, calls,
                validatorVars, failure, inProgress, adminCalls, consumers>>

\* FlowEngine.start(c, FlowDefs[key]) over the MemoryStore
MemoryStart(c, key) ==
    \E r \in {engineStart(store[c], key)} :
        /\ store' = [store EXCEPT ![c] = r.fs]
        /\ ttlMap' = [ttlMap EXCEPT ![c] = IF r.res.ok THEN memorySetTimer(now) ELSE @]
        /\ timeouts' = IF r.res.ok THEN timeoutsAfterSet(timeouts, c, ttlMap[c], now)
                       ELSE timeouts
        /\ out' = Out("start", c, E, key, r.res.ok, r.res, << >>, NoStatus, NoAttempts)
        /\ UNCHANGED <<now, returned>>
        /\ MemoryFrame

\* FlowEngine.advance(c, input) over the MemoryStore
MemoryAdvance(c, input) ==
    \E r \in {engineAdvance(store[c], input)} :
        /\ store' = [store EXCEPT ![c] = r.fs]
        /\ ttlMap' = [ttlMap EXCEPT ![c] = timerAfter(@, r.res, now)]
        /\ timeouts' = timeoutsAfter(timeouts, c, ttlMap[c], r.res, now)
        /\ out' = Out("advance", c, input, store[c].flow, r.res.ok, r.res, << >>,
                      NoStatus, NoAttempts)
        /\ UNCHANGED <<now, returned>>
        /\ MemoryFrame

\* FlowEngine.cancel(c) over the MemoryStore
MemoryCancel(c) ==
    /\ store' = [store EXCEPT ![c] = engineCancel(@)]
    /\ ttlMap' = [ttlMap EXCEPT ![c] = memoryClearTimer(@)]
    /\ timeouts' = timeoutsAfterClear(timeouts, c, ttlMap[c])
    /\ out' = Out("cancel", c, E, "", TRUE, NoResult, << >>, NoStatus, NoAttempts)
    /\ UNCHANGED <<now, returned>>
    /\ MemoryFrame

\* a timer that is due fires: its callback deletes the chat's entry and the
\* chat's ttlMap entry, whichever timer that entry holds
MemoryExpire(x) ==
    /\ x \in timeouts /\ now >= x.at
    /\ timeouts' = timeouts \ {x}
    /\ store' = [store EXCEPT ![x.chat] = NoState]
    /\ ttlMap' = [ttlMap EXCEPT ![x.chat] = NoTimer]
    /\ out' = Out("expire", x.chat, E, "", FALSE, NoResult, << >>, NoStatus, NoAttempts)
    /\ UNCHANGED <<now, returned>>
    /\ MemoryFrame

\* MemoryStore.get: this.map.get(chatId) || null (NoState stands for null)
memoryGet(fs) == IF storeHas(fs) THEN fs ELSE NoState

\* FlowEngine.getState(c) and FlowEngine.isActive(c) over the MemoryStore
MemoryRead(c) ==
    /\ returned' = Returned("read", c, [get |-> memoryGet(store[c]),
                                          has |-> storeHas(store[c])])
    /\ out' = Out("read", c, E, "", FALSE, NoResult, << >>, NoStatus, NoAttempts)
    /\ UNCHANGED <<store, ttlMap, timeouts, now>>
    /\ MemoryFrame

\* the clock advances; a timer that is due fires before time moves on
MemoryTick ==
    /\ now < MaxTime
    /\ \A x \in timeouts : x.at > now
    /\ now' = now + 1
    /\ out' = Out("tick", "", E, "", FALSE, NoResult, << >>, NoStatus, NoAttempts)
    /\ UNCHANGED <<store, ttlMap, timeouts, returned>>
    /\ MemoryFrame

\* the flows started over the MemoryStore
MemoryKeys == {"simple", "cyclic", "nonext", "dangling"}

MemoryInputs == { <<"1">>, <<"z","z">> }

NextMemory ==
    \/ \E c \in Chats, key \in MemoryKeys : MemoryStart(c, key)
    \/ \E c \in Chats, input \in MemoryInputs : MemoryAdvance(c, input)
    \/ \E c \in Chats : MemoryCancel(c)
    \/ \E x \in [chat : Chats, at : 0..(MaxTime + FLOW_TTL_SECONDS)] : MemoryExpire(x)
    \/ \E c \in Chats : MemoryRead(c)
    \/ MemoryTick

SpecMemory == Init /\ [][NextMemory]_vars

\* the step is cancel(c)
CancelStep(c) == out'.op = "cancel" /\ out'.chat = c

\* C25: cancel is idempotent and always safe: on a chat without FlowState
\* it does not throw and changes nothing; it always leaves no FlowState and
\* no expiry timer for the chat, so a second cancel in a row leaves the
\* state the first one left
C25_CancelIdempotent ==
    [][\A c \in Chats :
          CancelStep(c) =>
              /\ out'.ret
              /\ store'[c] = NoState /\ ttlMap'[c] = NoTimer
              /\ \A d \in Chats \ {c} : store'[d] = store[d] /\ ttlMap'[d] = ttlMap[d]
              /\ ~storeHas(store[c]) => (store' = store /\ ttlMap' = ttlMap)
              /\ (out.op = "cancel" /\ out.chat = c) => (store' = store /\ ttlMap' = ttlMap)]_vars

\* cancel was called on a chat with a FlowState and an armed timer, and both are gone
C25_CancelledActiveFlow ==
    /\ out.op = "cancel"
    /\ store[out.chat] = NoState /\ ttlMap[out.chat] = NoTimer
    /\ \E d \in Chats \ {out.chat} : storeHas(store[d]) /\ ttlMap[d].armed
    /\ now > 0

\* the timers pending for the chats, read off ttlMap
TimersOfTtlMap == UNION { timerOf(c, ttlMap[c]) : c \in Chats }

\* the step wrote the chat's entry (MemoryStore.set)
SetStep(c) ==
    /\ out'.chat = c
    /\ out'.op \in {"start", "advance"}
    /\ out'.res.ok /\ ~out'.res.terminal

\* the step is one that must not touch the chat's timer: a read (get, has)
\* or an advance the engine answered with input_invalido
QuietStep(c) ==
    /\ out'.chat = c
    /\ \/ out'.op = "read"
       \/ out'.op = "advance" /\ ~out'.res.ok /\ out'.res.error = "input_invalido"

\* the state part of C38: an entry is in the store exactly while its timer
\* is armed, the only pending timers are those ttlMap holds, and no entry
\* outlives its deadline
MemoryTimersInOrder ==
    /\ timeouts = TimersOfTtlMap
    /\ \A c \in Chats :
          /\ storeHas(store[c]) <=> ttlMap[c].armed
          /\ ttlMap[c].armed => now <= ttlMap[c].at

\* the step part of C38
MemoryTimerSteps ==
    \A c \in Chats :
        /\ SetStep(c) => storeHas(store'[c]) /\ ttlMap'[c] = memorySetTimer(now)
        /\ (out'.op = "expire" /\ out'.chat = c) =>
               /\ ttlMap[c].armed /\ now >= ttlMap[c].at
               /\ ~storeHas(store'[c])
        /\ (storeHas(store[c]) /\ ~storeHas(store'[c])) =>
               out'.chat = c /\ out'.op \in {"expire", "cancel", "advance"}
        /\ (out'.op = "cancel" /\ out'.chat = c) => timerOf(c, ttlMap[c]) \cap timeouts' = {}
        /\ QuietStep(c) => store' = store /\ ttlMap' = ttlMap /\ timeouts' = timeouts
        /\ (out'.op = "read" /\ out'.chat = c) =>
               /\ returned'.value.has <=> returned'.value.get # NoState
               /\ returned'.value.has <=> storeHas(store[c])

\* C38: an entry written by set at time t stays in the store until t + TTL
\* and is gone afterwards unless it is set again; each set restarts the
\* chat's timer and clear cancels it, so the only timer that can delete an
\* entry is the one armed by the latest set; has answers true exactly when
\* get answers an entry; get, has and an invalid advance leave the deadline
\* where it was
C38_MemoryExpiry == []MemoryTimersInOrder /\ [][MemoryTimerSteps]_vars

\* an advance set the chat's entry again after the clock had moved: the
\* entry is there, its deadline is a full TTL ahead and the one pending timer
\* is the new one
C38_SetAgainRestartedTimer ==
    /\ out.op = "advance" /\ out.res.ok /\ ~out.res.terminal
    /\ now > 0
    /\ storeHas(store[out.chat])
    /\ ttlMap[out.chat] = memorySetTimer(now)
    /\ timeouts = timerOf(out.chat, ttlMap[out.chat])

-----------------------------------------------------------------------------
(* ConversationRecoveryService taken alone: its operations called one     *)
(* after the other on a chat, each call run to its end before the next.   *)

RecoveryChats == {"c1"}

\* the suggestions handed to setPendingSuggestion
Suggestions ==
    { [optionId |-> <<"o","r","c">>, optionText |-> <<"O","r","c","a">>,
       confidence |-> <<3, 4>>],
      [optionId |-> <<"a","n","d">>, optionText |-> <<"A","n","d","a">>,
       confidence |-> <<4, 5>>] }

\* what a recovery-service operation leaves alone
RecoveryFrame ==
    UNCHANGED <<store, tracker, now, out, invalidRun, matcherVars, serviceOptions,
                rateVars, calls, validatorVars, failure, inProgress, adminCalls,
                ttlMap, consumers, timeouts>>

\* reset(c): repository.delete
reset(cv) == NoConv

Reset(c) ==
    /\ conv' = [conv EXCEPT ![c] = reset(@)]
    /\ returned' = Returned("reset", c, << >>)
    /\ RecoveryFrame

RecordValidSelection(c) ==
    /\ conv' = [conv EXCEPT ![c] = recordValidSelection(@, now)]
    /\ returned' = Returned("recordValidSelection", c, << >>)
    /\ RecoveryFrame

\* recordInvalidAttempt(c): the stored state, and {attempts, phase} returned
RecordInvalidAttempt(c) ==
    /\ conv[c].attempts < MaxAttempts
    /\ conv' = [conv EXCEPT ![c] = recordInvalidAttempt(@, now)]
    /\ returned' = Returned("recordInvalidAttempt", c,
                            [attempts |-> recordInvalidAttempt(conv[c], now).attempts,
                             phase |-> recordInvalidAttempt(conv[c], now).phase])
    /\ RecoveryFrame

SetPendingSuggestion(c, suggestion) ==
    /\ conv' = [conv EXCEPT ![c] = setPendingSuggestion(@, now, suggestion)]
    /\ returned' = Returned("setPendingSuggestion", c, << >>)
    /\ RecoveryFrame

\* peekPendingSuggestion(c): << >> stands for undefined
PeekPendingSuggestion(c) ==
    /\ returned' = Returned("peekPendingSuggestion", c, peekPendingSuggestion(conv[c]))
    /\ UNCHANGED conv
    /\ RecoveryFrame

\* consumePendingSuggestion(c), run to its end: the suggestion read is returned
ConsumePendingSuggestion(c) ==
    /\ conv' = [conv EXCEPT ![c] = consumePendingSuggestion(@, now)]
    /\ returned' = Returned("consumePendingSuggestion", c, conv[c].pending)
    /\ RecoveryFrame

Lock(c, lockedUntil) ==
    /\ conv' = [conv EXCEPT ![c] = lock(@, now, lockedUntil)]
    /\ returned' = Returned("lock", c, << >>)
    /\ RecoveryFrame

Unlock(c) ==
    /\ conv' = [conv EXCEPT ![c] = unlock(@, now)]
    /\ returned' = Returned("unlock", c, << >>)
    /\ RecoveryFrame

\* getLockStatus(c): an expired lock is cleared on the way
LockStatusRead(c) ==
    /\ conv' = [conv EXCEPT ![c] = getLockStatus(@, now).cv]
    /\ returned' = Returned("getLockStatus", c,
                            [locked |-> getLockStatus(conv[c], now).locked,
                             remainingMs |-> getLockStatus(conv[c], now).remainingMs,
                             lockedUntil |-> getLockStatus(conv[c], now).lockedUntil])
    /\ RecoveryFrame

GetAttempts(c) ==
    /\ returned' = Returned("getAttempts", c, getAttempts(conv[c], now))
    /\ UNCHANGED conv
    /\ RecoveryFrame

\* Date.now() moves on between two calls
RecoveryTick ==
    /\ now < MaxTime
    /\ now' = now + 1
    /\ UNCHANGED <<store, conv, tracker, out, invalidRun, auxVars>>

NextRecovery ==
    \/ \E c \in RecoveryChats : Reset(c)
    \/ \E c \in RecoveryChats : RecordValidSelection(c)
    \/ \E c \in RecoveryChats : RecordInvalidAttempt(c)
    \/ \E c \in RecoveryChats, s \in Suggestions : SetPendingSuggestion(c, s)
    \/ \E c \in RecoveryChats : PeekPendingSuggestion(c)
    \/ \E c \in RecoveryChats : ConsumePendingSuggestion(c)
    \/ \E c \in RecoveryChats : Lock(c, now + LOCK_DURATION_MS)
    \/ \E c \in RecoveryChats : Unlock(c)
    \/ \E c \in RecoveryChats : LockStatusRead(c)
    \/ \E c \in RecoveryChats : GetAttempts(c)
    \/ RecoveryTick

SpecRecovery == Init /\ [][NextRecovery]_vars

\* the operations that are neither recordValidSelection, recordInvalidAttempt
\* nor reset
LockAndSuggestionOps ==
    {"lock", "unlock", "getLockStatus", "setPendingSuggestion",
     "peekPendingSuggestion", "consumePendingSuggestion"}

\* C31: after any sequence of recovery-service operations on a chat, phase is
\* 'fallback' exactly when attempts >= 2; each recordInvalidAttempt raises
\* attempts by exactly 1 and returns the new {attempts, phase}; lock, unlock,
\* getLockStatus and the suggestion operations never change attempts or phase
C31_RecoveryStateInvariant ==
    /\ [](\A c \in RecoveryChats :
             getAttempts(conv[c], now).phase = "fallback"
                <=> getAttempts(conv[c], now).attempts >= 2)
    /\ [][\A c \in RecoveryChats :
             /\ returned'.op = "recordInvalidAttempt" /\ returned'.chat = c
                /\ conv'[c] # conv[c]
                => /\ conv'[c].attempts = getAttempts(conv[c], now).attempts + 1
                   /\ returned'.value = [attempts |-> conv'[c].attempts,
                                         phase |-> conv'[c].phase]
             /\ (returned'.op \in LockAndSuggestionOps /\ returned'.chat = c
                 /\ conv'[c] # conv[c])
                => getAttempts(conv'[c], now) = getAttempts(conv[c], now)]_vars

\* the second invalid attempt has just been recorded, with a lock and then a
\* suggestion stored before it: the fallback phase was returned
C31_SecondAttemptReturnedFallback ==
    /\ returned.op = "recordInvalidAttempt"
    /\ returned.value = [attempts |-> 2, phase |-> "fallback"]
    /\ conv[returned.chat].attempts = 2 /\ conv[returned.chat].phase = "fallback"
    /\ conv[returned.chat].lockedUntil # 0

\* a lock has just been stored on a conversation in the fallback phase
C31_LockedInFallback ==
    /\ returned.op = "lock"
    /\ conv[returned.chat].attempts = 3 /\ conv[returned.chat].phase = "fallback"
    /\ conv[returned.chat].lockedUntil > now

-----------------------------------------------------------------------------
(* consumePendingSuggestion called concurrently: the call reads the state  *)
(* (repository.get) when it is made and suspends at its await; when it     *)
(* resumes it saves the state READ with the slot emptied and returns the   *)
(* suggestion it read. Other calls run between the two steps.               *)

\* const current = await this.getState(chatId): the call k is made for chat c.
\* raced records that another call for c is suspended on the same stored state
ConsumeCall(k, c) ==
    /\ consumers[k].pc \in {"idle", "done"}
    /\ consumers' = [consumers EXCEPT ![k] =
          [pc |-> "read", chat |-> c, current |-> conv[c], value |-> << >>,
           raced |-> \E j \in Consumers \ {k} :
                        /\ consumers[j].pc = "read" /\ consumers[j].chat = c
                        /\ consumers[j].current = conv[c]]]
    /\ UNCHANGED <<store, conv, tracker, now, out, invalidRun, matcherVars, serviceOptions,
                   rateVars, calls, validatorVars, failure, inProgress, adminCalls,
                   ttlMap, returned, timeouts>>

\* the state the resumed call leaves, from the state it read and the one
\* now stored: nothing is saved when the state read has no suggestion
consumeSettled(current, stored, t) ==
    IF current = NoConv \/ current.pending = << >> THEN stored
    ELSE consumePendingSuggestion(current, t)

\* return current.pendingSuggestion (<< >>: undefined)
consumeValue(current, stored) == IF current = NoConv THEN << >> ELSE current.pending

\* the call k resumes: save and return
ConsumeSettle(k) ==
    /\ consumers[k].pc = "read"
    /\ conv' = [conv EXCEPT ![consumers[k].chat] =
                   consumeSettled(consumers[k].current, @, now)]
    /\ consumers' = [consumers EXCEPT ![k].pc = "done",
                        ![k].value = consumeValue(consumers[k].current,
                                                  conv[consumers[k].chat])]
    /\ UNCHANGED <<store, tracker, now, out, invalidRun, matcherVars, serviceOptions,
                   rateVars, calls, validatorVars, failure, inProgress, adminCalls,
                   ttlMap, returned, timeouts>>

NextConsume ==
    \/ \E k \in Consumers, c \in RecoveryChats : ConsumeCall(k, c)
    \/ \E k \in Consumers : ConsumeSettle(k)
    \/ \E c \in RecoveryChats, s \in Suggestions : SetPendingSuggestion(c, s)
    \/ \E c \in RecoveryChats : PeekPendingSuggestion(c)
    \/ RecoveryTick

SpecConsume == Init /\ [][NextConsume]_vars

\* the two calls ran concurrently on the same stored suggestion and both
\* have returned it
BothObtained(j, k) ==
    /\ j # k
    /\ consumers[j].pc = "done" /\ consumers[k].pc = "done"
    /\ consumers[j].chat = consumers[k].chat
    /\ consumers[k].raced /\ consumers[k].current = consumers[j].current
    /\ consumers[j].value # << >> /\ consumers[k].value = consumers[j].value

\* C34 as stated: consumePendingSuggestion reads and clears the single
\* suggestion slot as one atomic step: after it returns a suggestion,
\* peekPendingSuggestion returns undefined; and of two consume calls for the
\* same chat that run concurrently at most one obtains the suggestion
C34_ConsumeIsAtomic ==
    /\ [](\A j, k \in Consumers : ~BothObtained(j, k))
    /\ [][\A k \in Consumers :
             (consumers[k].pc = "read" /\ consumers'[k].pc = "done"
              /\ consumers'[k].value # << >>)
             => /\ conv[consumers[k].chat].pending = consumers'[k].value
                /\ peekPendingSuggestion(conv'[consumers[k].chat]) = << >>]_vars

\* the part of C34 the code keeps, for calls run one after the other: a
\* consume returns what the slot held and leaves it empty, so a peek or a
\* second consume right after it returns undefined
C34_SequentialConsumeClears ==
    [][\A c \in RecoveryChats :
          (returned'.op = "consumePendingSuggestion" /\ returned'.chat = c
           /\ (conv'[c] # conv[c] \/ returned' # returned))
          => /\ returned'.value = peekPendingSuggestion(conv[c])
             /\ peekPendingSuggestion(conv'[c]) = << >>
             /\ consumePendingSuggestion(conv'[c], now) = conv'[c]]_vars

\* two concurrent consume calls have both returned the one suggestion
C34_SuggestionObtainedTwice ==
    \E j, k \in Consumers : BothObtained(j, k)

-----------------------------------------------------------------------------
(* The flow engine alone over a family of definitions: start of any        *)
(* definition of the family, advance and cancel, nothing else writing the  *)
(* store.                                                                   *)

\* the definitions of GenFlows over the node sets {a} and {a, b}
TwoNodeFlows ==
    { [start |-> s, nodes |-> [id \in DOMAIN f |-> GenNode(f[id])]] :
        s \in {"a", "b", "z", ""},
        f \in UNION { [ids -> GenShapes] : ids \in {{"a"}, {"a", "b"}} } }

InitFamily ==
    /\ store = [c \in Chats |-> NoState]
    /\ conv = [c \in Chats |-> NoConv]
    /\ tracker = [c \in Chats |-> NoEntry]
    /\ now = 0
    /\ out = Out("init", "", E, "", FALSE, NoResult, << >>, NoStatus, NoAttempts)
    /\ invalidRun = [c \in Chats |-> 0]
    /\ built = << >>
    /\ lastMatch = NotMatched
    /\ serviceOptions = DefaultOptions
    /\ rate = newRateController(FALSE)
    /\ sends = [p \in Callers |-> IdleSend]
    /\ gatedSinceRefill = 0
    /\ calls = [h \in Handlers |-> IdleCall]
    /\ flowDef \in TwoNodeFlows
    /\ report = NoReport
    /\ InitLater

\* FlowEngine.advance on a FlowState whose flow is the definition flow
engineAdvanceIn(fs, flow, inputRaw) ==
    IF fs = NoState
    THEN [fs |-> fs, res |-> Result(FALSE, FALSE, "sem_fluxo_ativo", "", E, E, E)]
    ELSE IF fs.current \notin NodeIds(flow)
    THEN [fs |-> storeClear(fs), res |-> Result(FALSE, FALSE, "no_node", fs.current, E, E, E)]
    ELSE advanceAtNode(fs, flow, fs.current, inputRaw)

\* FlowEngine.advance(c, input), the chat's flow being flowDef
AdvanceFlowDef(c, input) ==
    \E r \in {engineAdvanceIn(store[c], flowDef, input)} :
        /\ store' = [store EXCEPT ![c] = r.fs]
        /\ out' = Out("advance", c, input, "generated", r.res.ok, r.res, << >>,
                      NoStatus, NoAttempts)
        /\ UNCHANGED <<conv, tracker, now, invalidRun, validatorVars>>
        /\ UNCHANGED <<matcherVars, serviceOptions, rateVars, calls, laterVars>>

\* FlowEngine.cancel(c)
CancelFlowDef(c) ==
    /\ store' = [store EXCEPT ![c] = engineCancel(@)]
    /\ out' = Out("cancel", c, E, "", TRUE, NoResult, << >>, NoStatus, NoAttempts)
    /\ UNCHANGED <<conv, tracker, now, invalidRun, validatorVars>>
    /\ UNCHANGED <<matcherVars, serviceOptions, rateVars, calls, laterVars>>

FamilyInputs == { <<"1">>, <<"2">>, <<"t","1">>, <<"z","z">> }

NextFamily ==
    \/ \E c \in SessionChats : StartFlowDef(c)
    \/ \E c \in SessionChats, input \in FamilyInputs : AdvanceFlowDef(c, input)
    \/ \E c \in SessionChats : CancelFlowDef(c)

SpecFamily == InitFamily /\ [][NextFamily]_vars

\* the node has options and is not marked terminal
Continues(flow, id) ==
    /\ id \in NodeIds(flow)
    /\ ~flow.nodes[id].terminal /\ Len(flow.nodes[id].options) > 0

\* C36: after any sequence of start (with any flows), advance and cancel,
\* every stored FlowState refers to a flow that passed validation and to a
\* current node that exists in that flow, and advance never stores a current
\* node that is terminal or has no options (only start can leave the state
\* on an option-less start node); consequently 'no_node' and
\* 'next_inexistente' are unreachable through engine operations alone
C36_EngineStateValid ==
    /\ [](\A c \in SessionChats :
             /\ storeHas(store[c]) =>
                   /\ validateOptionFlow(flowDef).ok
                   /\ store[c].current \in NodeIds(flowDef)
                   /\ Continues(flowDef, store[c].current)
                         \/ store[c].current = flowDef.start
             /\ out.res.error \notin {"no_node", "next_inexistente"})
    /\ [][\A c \in SessionChats :
             (out'.op = "advance" /\ out'.chat = c /\ storeHas(store'[c]))
                => Continues(flowDef, store'[c].current)]_vars

\* an advance has just stored the node it moved to
C36_AdvanceStoredNextNode ==
    \E c \in SessionChats :
        /\ out.op = "advance" /\ out.chat = c
        /\ out.res.ok /\ ~out.res.terminal
        /\ store[c] = FlowState("generated", "b")
        /\ flowDef.start = "a"

\* a start has just left the state on a start node without options
C36_StartedOnOptionlessNode ==
    \E c \in SessionChats :
        /\ out.op = "start" /\ out.chat = c /\ out.res.ok
        /\ storeHas(store[c])
        /\ Len(flowDef.nodes[store[c].current].options) = 0

-----------------------------------------------------------------------------
(* buildOptionMatcher(options).matchOption over option lists whose texts   *)
(* lie at several edit distances of the inputs (fewer candidates than      *)
(* FAST_FUZZY_MIN_CANDIDATES: the Levenshtein engine)                      *)

SuggestTexts == { <<"a","b">>, <<"A","b","c">>, <<"a","b","d">>, <<" ">> }

SuggestOptions ==
    { Opt(<<"x">>, text, << >>, "") : text \in SuggestTexts }
        \cup { Opt(<<"x">>, <<"a","b">>, << <<"k">> >>, "") }

SuggestLists == UNION { [1..n -> SuggestOptions] : n \in 1..MaxOptions }

SuggestInputs ==
    { E, <<" ">>, <<"1">>, <<"x">>, <<"k">>, <<"a","b","c">>, <<"a","b","x">>,
      <<"A","B"," ">>, <<"b">>, <<"z","z">> }

\* minimumConfidence, in percent
MinimumConfidences == {0, 45, 50, 67, 100}

InitSuggest ==
    /\ store = [c \in Chats |-> NoState]
    /\ conv = [c \in Chats |-> NoConv]
    /\ tracker = [c \in Chats |-> NoEntry]
    /\ now = 0
    /\ out = Out("init", "", E, "", FALSE, NoResult, << >>, NoStatus, NoAttempts)
    /\ invalidRun = [c \in Chats |-> 0]
    /\ built \in SuggestLists
    /\ lastMatch = NotMatched
    /\ serviceOptions = DefaultOptions
    /\ rate = newRateController(FALSE)
    /\ sends = [p \in Callers |-> IdleSend]
    /\ gatedSinceRefill = 0
    /\ calls = [h \in Handlers |-> IdleCall]
    /\ InitExtra

\* buildOptionMatcher(built).matchOption(input, {minimumConfidence})
MatchOption(input, minimumConfidence) ==
    /\ \E r \in {matchOption(NormalizeAll(built), input, minimumConfidence)} :
          lastMatch' = [input |-> input, min |-> minimumConfidence, kind |-> r.kind,
                        matchedBy |-> r.matchedBy, idx |-> r.idx,
                        num |-> r.num, den |-> r.den]
    /\ UNCHANGED <<extraVars, store, conv, tracker, now, out, invalidRun, built,
                   serviceOptions, rateVars, calls>>

NextSuggest ==
    \E input \in SuggestInputs, minimumConfidence \in MinimumConfidences :
        MatchOption(input, minimumConfidence)

SpecSuggest == InitSuggest /\ [][NextSuggest]_vars

\* max(len(input), len(text)) of the normalized input and option text
Longest(input, k) ==
    Max2(Len(normalizeText(input)), Len(normalizeText(BuiltOptions[k].text)))

\* distance between the normalized input and option text
Distance(input, k) ==
    levenshteinDistance(normalizeText(input), normalizeText(BuiltOptions[k].text))

\* confidence of option h <= confidence of option k, the confidence being
\* 1 - distance / max(len(input), len(text))
NoBetter(input, h, k) ==
    (Longest(input, h) - Distance(input, h)) * Longest(input, k)
       <= (Longest(input, k) - Distance(input, k)) * Longest(input, h)

\* the options with a text whose confidence is >= pct / 100
Reaching(input, pct) ==
    { k \in 1..Len(built) :
        /\ normalizeText(BuiltOptions[k].text) # E
        /\ 100 * (Longest(input, k) - Distance(input, k)) >= pct * Longest(input, k) }

\* option k is the first of maximal confidence among those reaching pct
FirstMaximal(input, pct, k) ==
    /\ k \in Reaching(input, pct)
    /\ \A h \in Reaching(input, pct) :
          /\ NoBetter(input, h, k)
          /\ NoBetter(input, k, h) => k <= h

\* C37: matchOption(input, {minimumConfidence}) returns the exact match
\* whenever one exists (never a suggestion); otherwise it returns, tagged
\* 'suggestion', an option whose confidence 1 - distance/max(len(input),
\* len(text)) is maximal among all options and >= minimumConfidence (the
\* first such option on ties), and null when no option reaches
\* minimumConfidence or the normalized input is empty
C37_BestSuggestionOrExact ==
    lastMatch # NotMatched =>
        IF matchExact(BuiltOptions, lastMatch.input).kind = "exact"
        THEN /\ lastMatch.kind = "exact"
             /\ lastMatch.idx = matchExact(BuiltOptions, lastMatch.input).idx
             /\ lastMatch.matchedBy = matchExact(BuiltOptions, lastMatch.input).matchedBy
        ELSE IF \/ normalizeText(lastMatch.input) = E
                \/ Reaching(lastMatch.input, lastMatch.min) = {}
        THEN lastMatch.kind = "none"
        ELSE /\ lastMatch.kind = "suggestion"
             /\ FirstMaximal(lastMatch.input, lastMatch.min, lastMatch.idx)
             /\ lastMatch.num * Longest(lastMatch.input, lastMatch.idx)
                   = (Longest(lastMatch.input, lastMatch.idx)
                        - Distance(lastMatch.input, lastMatch.idx)) * lastMatch.den

\* a suggestion was returned for which a later option ties with the one
\* returned
C37_TieAnsweredByFirst ==
    /\ lastMatch # NotMatched /\ lastMatch.kind = "suggestion"
    /\ lastMatch.idx = 1 /\ Len(built) = 2
    /\ 2 \in Reaching(lastMatch.input, lastMatch.min)
    /\ NoBetter(lastMatch.input, 1, 2) /\ NoBetter(lastMatch.input, 2, 1)
    /\ lastMatch.num < lastMatch.den

\* null was returned although an option lies at a positive confidence
C37_BelowMinimumConfidence ==
    /\ lastMatch # NotMatched /\ lastMatch.kind = "none"
    /\ lastMatch.min = 67
    /\ normalizeText(lastMatch.input) # E
    /\ Reaching(lastMatch.input, 50) # {}

\* the second option was returned as the strictly better one
C37_LaterOptionBetter ==
    /\ lastMatch # NotMatched /\ lastMatch.kind = "suggestion"
    /\ lastMatch.idx = 2
    /\ 1 \in Reaching(lastMatch.input, lastMatch.min)

-----------------------------------------------------------------------------
(* createFlowPromptTracker taken alone: remember, clear and recentFlowKey  *)
(* called in any order on any chat while the clock runs. returned holds    *)
(* the last call and, for recentFlowKey, its answer ("" for undefined).    *)

\* the keys handed to remember: flow keys, a key that names no flow of the
\* deployment, and "" for a call without a key
TrackerKeys == {"menu", "catalog", "promo", ""}

\* isRecent(chatId): an entry is there and Date.now() - entry.at <= windowMs
isRecent(tr, t) == tr # NoEntry /\ t - tr.at <= DEFAULT_FLOW_PROMPT_WINDOW_MS

\* the tracker's own recentFlowKey(chatId), before FlowSessionService narrows it
trackerRecentFlowKey(tr, t) == IF isRecent(tr, t) THEN tr.flow ELSE ""

TrackerFrame ==
    UNCHANGED <<store, conv, now, out, invalidRun, matcherVars, serviceOptions, rateVars,
                calls, validatorVars, failure, inProgress, adminCalls, ttlMap, consumers,
                timeouts>>

Remember(c, flowKey) ==
    /\ tracker' = [tracker EXCEPT ![c] = remember(@, now, flowKey)]
    /\ returned' = Returned("remember", c, flowKey)
    /\ TrackerFrame

ClearEntry(c) ==
    /\ tracker' = [tracker EXCEPT ![c] = clearTracker(@)]
    /\ returned' = Returned("clear", c, "")
    /\ TrackerFrame

RecentFlowKey(c) ==
    /\ returned' = Returned("recentFlowKey", c, trackerRecentFlowKey(tracker[c], now))
    /\ UNCHANGED tracker
    /\ TrackerFrame

NextTracker ==
    \/ \E c \in Chats, flowKey \in TrackerKeys : Remember(c, flowKey)
    \/ \E c \in Chats : ClearEntry(c)
    \/ \E c \in Chats : RecentFlowKey(c)
    \/ Tick

SpecTracker == Init /\ [][NextTracker]_vars

\* the step is the call op on chat c (the clock moves in steps of its own)
TrackerCall(op, c) == now' = now /\ returned'.op = op /\ returned'.chat = c

\* the chat has an entry: remember stores no entry without a flow
HasEntry(c) == tracker[c].flow # ""

\* C40: remember(chat, key) stores key with the current time;
\* remember(chat) without a key keeps the stored key and sets its time to
\* now, and stores nothing for a chat without an entry; recentFlowKey(chat)
\* answers the stored key exactly while now - at <= windowMs, and undefined
\* later or when the entry was cleared; no call touches another chat's entry
C40_PromptRecency ==
    [][\A c \in Chats :
          /\ (TrackerCall("remember", c) /\ returned'.value # "") =>
                tracker'[c] = [at |-> now, flow |-> returned'.value]
          /\ (TrackerCall("remember", c) /\ returned'.value = "") =>
                IF HasEntry(c)
                THEN tracker'[c] = [at |-> now, flow |-> tracker[c].flow]
                ELSE tracker'[c] = tracker[c] /\ tracker'[c] = NoEntry
          /\ TrackerCall("clear", c) => tracker'[c] = NoEntry
          /\ TrackerCall("recentFlowKey", c) =>
                /\ tracker' = tracker
                /\ returned'.value =
                      IF HasEntry(c) /\ now - tracker[c].at <= DEFAULT_FLOW_PROMPT_WINDOW_MS
                      THEN tracker[c].flow ELSE ""
          /\ (\E op \in {"remember", "clear", "recentFlowKey"} : TrackerCall(op, c)) =>
                \A d \in Chats \ {c} : tracker'[d] = tracker[d]]_vars

\* remember was called without a key on a chat with an entry, after the
\* clock had moved: the entry keeps its key and carries the current time,
\* and the other chat has none
C40_RefreshedWithoutKey ==
    /\ returned = Returned("remember", "c1", "")
    /\ tracker["c1"] = [at |-> now, flow |-> "promo"]
    /\ now > DEFAULT_FLOW_PROMPT_WINDOW_MS
    /\ tracker["c2"] = NoEntry

\* the window has passed: the entry is still stored and the answer is undefined
C40_LapsedAnswersUndefined ==
    /\ returned = Returned("recentFlowKey", "c1", "")
    /\ HasEntry("c1")
    /\ now - tracker["c1"].at > DEFAULT_FLOW_PROMPT_WINDOW_MS

=============================================================================
